---------------------------- MODULE Spec2Model ----------------------------
(***************************************************************************)
(* A model of src/python/dspy_optimize.py: the Evaluation Dispatcher       *)
(* (_parallel_evaluate_prompt), the Cache Store, the store                *)
(* rewrite discipline (_cache_write_all / _write_experiences), the cache   *)
(* key (_build_cache_key), the Experience Bank (_retrieve_experiences,      *)
(* _prune_experiences, _append_experience, _bump_usage_counts), the scorer *)
(* (_analyze_output and the dispatcher's worker), the Snapshot Persister   *)
(* (the metric closure and run's signal handler) and run under failing     *)
(* file-system calls.                                                      *)
(*                                                                         *)
(* Each component has its own specification over its own variables; the    *)
(* variables of the other components are left unchanged by its actions.    *)
(***************************************************************************)
EXTENDS Integers, Sequences, FiniteSets, TLC

VARIABLES
    \* ---- Evaluation Dispatcher (one call of _parallel_evaluate_prompt) ----
    featureSets,   \* feature_sets: the checklists, a sequence of feature lists
    doc,           \* the features literally present in combined_lower
    weightsMap,    \* weights_map: feature -> weight (absent: default 1)
    bonus,         \* bonus returned by _precompute_prompt_base (1/10000 units)
    forceThreads,  \* DSPY_PARALLEL in ("threads", "thread")
    workers,       \* the workers argument
    pc,            \* position inside _parallel_evaluate_prompt
    route,         \* which thread-pool block of the cascade is running
    seqWhy,        \* why the thread pool gave way to the sequential strategy
    pools,         \* the pools the call created: name -> [st, joined]
    trail,         \* strategies attempted so far, in order
    results,       \* the returned result list
    meta,          \* the returned meta dict (a function from its keys)
    raised,        \* TRUE when an exception left the call
    hung,          \* every worker the call starts hangs forever
    failedAt,      \* positions whose analysis raised in the strategy that answered
    \* ---- Cache Store (run's lookup / upsert over one cache file) ----
    cacheFile,     \* the persisted collection: a sequence of entries
    clock,         \* wall clock (time.time()), in seconds
    cpc,           \* position inside run
    cacheKey,      \* cache_key of the running request
    cacheItems,    \* run's in-memory cache_items
    runNow,        \* run's `now` (line 1999)
    ttl,           \* ttl_seconds
    maxEntries,    \* max_entries
    lookup,        \* outcome of the last lookup: "none", "hit" or "miss"
    hitEntry,      \* the entry the last hit returned (as it was stored)
    expiredSeen,   \* entries found expired since the last lookup began
    evictIn,       \* input of the last _cache_evict_and_prune call
    evictOut,      \* output of the last _cache_evict_and_prune call
    evictNow,      \* `now` of the last _cache_evict_and_prune call
    \* ---- Store rewrite (_cache_write_all / _write_experiences) ----
    target,        \* lines of the file now at the store path (0: a hole)
    lockHolder,    \* process holding flock on that file (0: nobody)
    hasFcntl,      \* the fcntl module could be imported
    wpc,           \* per process: position inside its write
    wItems,        \* per process: the items it is writing
    wPos,          \* per process: items its write loop has handled
    wTmp,          \* per process: lines in its temporary file
    wOut,          \* per process: lines its direct rewrite has written
    wPrior,        \* per process: what the store held when its write began
    wFailed,       \* per process: a step of its write raised
    wAlone,        \* per process: nobody else touched the store meanwhile
    hStale,        \* per process: its open handle is on a replaced file
    hOff,          \* per process: offset of its open handle, in lines
    readSeen,      \* the records the last read (by any process) returned
    committed,     \* what completed writes wrote, and the initial records
    writesBegun,   \* rewrites begun so far, by all processes
    \* ---- Cache key (_build_cache_key) ----
    payloadA,      \* first payload: a sequence of <<field, value>> pairs
    payloadB,      \* second payload
    keyA,          \* _build_cache_key(payloadA), once computed
    keyB,          \* _build_cache_key(payloadB), once computed
    served,        \* the requests served so far, in order
    keyStore,      \* keys of entries stored in the cache by these requests
    keyHit,        \* the last request served found its key in the cache
    \* ---- Experience Bank (_retrieve_experiences) ----
    expStore,      \* the store file: a sequence of experience records
    expNow,        \* time.time() at the retrieve call
    query,         \* the last query: [schemaType, bow, topK, minScore]
    retrieved,     \* the list the last retrieve returned
    epc,           \* "idle" before, "done" after a retrieve, "pruned" after a prune
    expPrior,      \* the records the store held when the prune was called
    pruneArgs,     \* the last prune's arguments: [threshold, maxAgeDays]
    pruneCounts,   \* the counts the last prune returned
    \* ---- Experience Bank file shared by processes ----
    bank,          \* lines of the file now at the experience store's path
    bankLock,      \* process holding the flock on that file, 0 when none
    bpc,           \* per process: where it stands in its append or rewrite
    bItems,        \* per process: the items its rewrite writes back
    bPos,          \* per process: items its fallback has written
    bOff,          \* per process: offset of its open handle, in lines
    bStale,        \* per process: its open handle is on a replaced file
    bMissed,       \* per process: records appended since its rewrite read the store
    bLost,         \* appended records that a replace has put out of the store
    appended,      \* the records whose append has returned
    opsBegun,      \* appends and rewrites begun so far, by all processes
    \* ---- Scorer on text ----
    sFeatures,     \* the checklist: a sequence of feature numbers
    sText,         \* the text scored (the combined fields, or the raw text)
    sParsed,       \* the prompt parsed and validated
    sRawWeights,   \* the feature weight overrides as given
    sJsonBonus,    \* the JSON bonus as given
    scoreResult,   \* what _analyze_output returned
    workerResult,  \* what the worker of the dispatcher returned
    scored,        \* which of the two calls have been made
    \* ---- Snapshot Persister (metric closure, signal handler) ----
    mpc,           \* position of run, or of its signal handler
    bestRaw,       \* best_tracker["raw"]
    globalIteration,  \* flags["globalIteration"]
    lastAutosaveIter, \* flags["lastAutosaveIter"]
    perfectStreak, \* flags["perfectStreak"]
    earlyStop,     \* flags["earlyStop"]
    bestSnapshot,  \* emergency_state["bestSnapshot"]
    emergencyStore,   \* the lines of the file at emergency_best_path
    bestPrompts,   \* the lines of the file at best_prompts_path
    metricReturn,  \* what the last metric call returned
    mNow,          \* time.time()
    children,      \* the worker processes: child -> state
    signum,        \* the signal delivered (0: none)
    exitCode,      \* the exit status of the process (0: still running)
    sampleLog,     \* the (rawScore, coverage) of the metric calls so far
    bestIteration, \* best_tracker["iteration"]
    \* ---- Failing store writes (run and metric under file-system faults) ----
    fpc,           \* position inside run
    fOutcome,      \* how run ended: "cached", "computed" or "raised"
    cacheDirThere, \* the directory of cache_path exists
    cacheHit,      \* the cache file holds an entry for cache_key
    expFileThere,  \* the experience file exists
    saveOk,        \* save_ok: the final prompt is worth saving
    fFailed,       \* write sites whose write was lost, in part or whole
    fStored,       \* write sites whose write went through
    fSamples,      \* metric calls made
    fLastRaw,      \* raw score of the last metric call
    fMetricReturn, \* what the last metric call returned (-1: it raised)
    \* ---- One call of _bump_usage_counts (history) ----
    bCall,         \* per process: the ids and the records read by its last bump
    \* ---- One call of _analyze_output on a candidate text ----
    sDoc,          \* raw_text: its symbols and what the JSON readers make of it
    sError,        \* the exception the call let out ("none": it returned)
    \* ---- A termination signal during an append to the emergency store ----
    aThread,       \* the thread the metric runs in: "main" or "worker"
    aFcntl,        \* fcntl is available
    apc,           \* where the metric's _append_best_prompt stands
    aCount,        \* appends the metric has begun
    hpc,           \* where _emergency_signal_handler stands
    eLock,         \* the open file holding the flock on the emergency store
    eLines         \* the lines of the emergency store, by their writer

dispVars  == <<featureSets, doc, weightsMap, bonus, forceThreads, workers, pc,
               route, seqWhy, pools, trail, results, meta, raised, hung,
               failedAt>>
cacheVars == <<cacheFile, clock, cpc, cacheKey, cacheItems, runNow, ttl,
               maxEntries, lookup, hitEntry, expiredSeen, evictIn, evictOut, evictNow>>
storeVars == <<target, lockHolder, hasFcntl, wpc, wItems, wPos, wTmp, wOut, wPrior,
               wFailed, wAlone, hStale, hOff, readSeen, committed, writesBegun>>
keyVars   == <<payloadA, payloadB, keyA, keyB, served, keyStore, keyHit>>
expVars   == <<expStore, expNow, query, retrieved, epc, expPrior, pruneArgs,
               pruneCounts>>
bankVars  == <<bank, bankLock, bpc, bItems, bPos, bOff, bStale, bMissed, bLost,
               appended, opsBegun>>
scoreVars == <<sFeatures, sText, sParsed, sRawWeights, sJsonBonus, scoreResult,
               workerResult, scored>>
metricVars == <<mpc, bestRaw, globalIteration, lastAutosaveIter, perfectStreak,
                earlyStop, bestSnapshot, emergencyStore, bestPrompts,
                metricReturn, mNow, children, signum, exitCode, sampleLog, bestIteration>>
failVars  == <<fpc, fOutcome, cacheDirThere, cacheHit, expFileThere, saveOk,
               fFailed, fStored, fSamples, fLastRaw, fMetricReturn>>
bumpVars  == <<bCall>>
parseVars == <<sDoc, sError>>
sigVars   == <<aThread, aFcntl, apc, aCount, hpc, eLock, eLines>>
vars      == <<dispVars, cacheVars, storeVars, keyVars, expVars, bankVars,
               scoreVars, metricVars, failVars, bumpVars, parseVars, sigVars>>

-----------------------------------------------------------------------------
(* Bounds of the model.                                                    *)

\* Largest number of checklists handed to one dispatcher call.
MaxSets == 2

\* Largest number of entries in the cache file when the model starts.
MaxFile == 2

\* The wall clock stops advancing at this value.
MaxClock == 4

\* Largest number of store rewrites begun in one behaviour.
MaxWrites == 2

\* Largest number of records in the experience store.
MaxRecords == 4

\* Largest number of appends and rewrites of the experience store begun in
\* one behaviour.
MaxOps == 3

\* Largest number of features in a checklist handed to the scorer.
MaxFeatures == 2

-----------------------------------------------------------------------------
(* Generic helpers.                                                        *)

Min(a, b) == IF a < b THEN a ELSE b
Max(a, b) == IF a > b THEN a ELSE b

Range(s) == {s[i] : i \in DOMAIN s}

SeqsUpTo(S, n) == UNION {[1..k -> S] : k \in 0..n}

\* The subsequence of s whose elements satisfy Keep, in order.
RECURSIVE SelectIdx(_, _, _)
SelectIdx(s, keep, i) ==
    IF i > Len(s) THEN <<>>
    ELSE (IF i \in keep THEN <<s[i]>> ELSE <<>>) \o SelectIdx(s, keep, i + 1)

-----------------------------------------------------------------------------
(* Idle initial values of each component, used by the other components'    *)
(* specifications.                                                         *)

DispIdle ==
    /\ featureSets = <<>> /\ doc = {} /\ weightsMap = <<>> /\ bonus = 0
    /\ forceThreads = FALSE /\ workers = 1 /\ pc = "idle" /\ route = "none"
    /\ seqWhy = "none"
    /\ pools = <<>> /\ trail = <<>> /\ results = <<>> /\ meta = <<>>
    /\ raised = FALSE /\ hung = FALSE /\ failedAt = {}

CacheIdle ==
    /\ cacheFile = <<>> /\ clock = 0 /\ cpc = "off" /\ cacheKey = 0
    /\ cacheItems = <<>> /\ runNow = 0 /\ ttl = 0 /\ maxEntries = 0
    /\ lookup = "none" /\ hitEntry = <<>> /\ expiredSeen = {}
    /\ evictIn = <<>> /\ evictOut = <<>> /\ evictNow = 0

StoreIdle ==
    /\ target = <<>> /\ lockHolder = 0 /\ hasFcntl = TRUE /\ wpc = <<>>
    /\ wItems = <<>> /\ wPos = <<>> /\ wTmp = <<>> /\ wOut = <<>> /\ wPrior = <<>>
    /\ wFailed = <<>> /\ wAlone = <<>> /\ hStale = <<>> /\ hOff = <<>>
    /\ readSeen = <<>> /\ committed = {} /\ writesBegun = 0

KeyIdle ==
    /\ payloadA = <<>> /\ payloadB = <<>> /\ keyA = <<>> /\ keyB = <<>>
    /\ served = <<>> /\ keyStore = {} /\ keyHit = FALSE

ExpIdle ==
    /\ expStore = <<>> /\ expNow = 0 /\ query = <<>> /\ retrieved = <<>>
    /\ epc = "off" /\ expPrior = <<>> /\ pruneArgs = <<>> /\ pruneCounts = <<>>

BankIdle ==
    /\ bank = <<>> /\ bankLock = 0 /\ bpc = <<>> /\ bItems = <<>> /\ bPos = <<>>
    /\ bOff = <<>> /\ bStale = <<>> /\ bMissed = <<>> /\ bLost = {}
    /\ appended = {} /\ opsBegun = 0

ScoreIdle ==
    /\ sFeatures = <<>> /\ sText = <<>> /\ sParsed = FALSE /\ sRawWeights = <<>>
    /\ sJsonBonus = 0 /\ scoreResult = <<>> /\ workerResult = <<>> /\ scored = {}

MetricIdle ==
    /\ mpc = "off" /\ bestRaw = 0 /\ globalIteration = 0 /\ lastAutosaveIter = 0
    /\ perfectStreak = 0 /\ earlyStop = FALSE /\ bestSnapshot = <<>>
    /\ emergencyStore = <<>> /\ bestPrompts = <<>> /\ metricReturn = 0
    /\ mNow = 0 /\ children = <<>> /\ signum = 0 /\ exitCode = 0
    /\ sampleLog = <<>> /\ bestIteration = 0

FailIdle ==
    /\ fpc = "off" /\ fOutcome = "none" /\ cacheDirThere = FALSE
    /\ cacheHit = FALSE /\ expFileThere = FALSE /\ saveOk = FALSE
    /\ fFailed = {} /\ fStored = {} /\ fSamples = 0 /\ fLastRaw = 0
    /\ fMetricReturn = 0

BumpIdle == bCall = <<>>

ParseIdle == sDoc = <<>> /\ sError = "none"

SigIdle ==
    /\ aThread = "main" /\ aFcntl = FALSE /\ apc = "off" /\ aCount = 0
    /\ hpc = "off" /\ eLock = "none" /\ eLines = <<>>

-----------------------------------------------------------------------------
(* EVALUATION DISPATCHER                                                   *)
(*                                                                         *)
(* Features are small numbers; 0 is a blank feature text.  The document is *)
(* the set of features _feature_hit finds in it.  Scores are in units of   *)
(* 1/ScoreScale, the four decimals of round(x, 4).                         *)

ScoreScale == 10000

PoolNames == {"probe", "proc", "thread"}

\* A pool variable that is still None.
NoPool == [st |-> "none", joined |-> FALSE]

\* multiprocessing's Pool(...): a running pool.
NewPool == [st |-> "run", joined |-> FALSE]

\* pool.close(): a running pool stops taking work; otherwise nothing changes.
PoolClose(p) == IF p.st = "run" THEN [p EXCEPT !.st = "close"] ELSE p

\* pool.terminate(): the workers are stopped.
PoolTerminate(p) == [p EXCEPT !.st = "term"]

\* pool.join(): raises ValueError on a pool still running (swallowed by the
\* caller), otherwise waits for the workers to exit.
PoolJoin(p) == IF p.st = "run" THEN p ELSE [p EXCEPT !.joined = TRUE]

\* A plausible slip: the unforced path closes the pool and never joins it.
SafePoolCloseNoJoin(p, force) ==
    IF p.st = "none" THEN p
    ELSE IF force THEN PoolTerminate(PoolJoin(PoolTerminate(p)))
    ELSE PoolTerminate(PoolClose(p))

\* A plausible slip: the force flag is ignored, so join() is called on a
\* running pool and raises (swallowed); the pool ends terminated, not joined.
SafePoolCloseForceIgnored(p, force) ==
    IF p.st = "none" THEN p ELSE PoolTerminate(PoolJoin(p))

\* _safe_pool_close(pool, force_terminate)
SafePoolClose(p, force) ==
    IF p.st = "none" THEN p
    ELSE PoolTerminate(PoolJoin(IF force THEN PoolTerminate(p) ELSE PoolClose(p)))

\* The finally-clauses of _check_multiprocessing_health: close, terminate, join.
ProbeClose(p) ==
    IF p.st = "none" THEN p ELSE PoolJoin(PoolTerminate(PoolClose(p)))

\* weights_map.get(normalized.lower(), 1.0)
WeightOf(wm, f) == IF f \in DOMAIN wm THEN wm[f] ELSE 1

RECURSIVE SumWeights(_, _)
SumWeights(wm, fs) ==
    IF fs = <<>> THEN 0 ELSE WeightOf(wm, Head(fs)) + SumWeights(wm, Tail(fs))

\* round(a / b, 4) in units of 1/ScoreScale
RoundDiv(a, b) == (2 * a * ScoreScale + b) \div (2 * b)

\* _feature_hit on the precomputed document
FeatureHit(f, d) == f \in d

\* _analyze_with_base(combined_lower, features, weights_map, bonus)
AnalyzeWithBase(d, features, wm, b) ==
    LET nonblank == SelectSeq(features, LAMBDA f : f # 0)
        hits     == SelectSeq(nonblank, LAMBDA f : FeatureHit(f, d))
        missing  == SelectSeq(nonblank, LAMBDA f : ~FeatureHit(f, d))
        total    == SumWeights(wm, nonblank)
        hitw     == SumWeights(wm, hits)
        coverage == IF total > 0 THEN RoundDiv(hitw, total) ELSE ScoreScale
    IN  [score |-> Min(ScoreScale, coverage + b), coverage |-> coverage,
         satisfied |-> hits, missing |-> missing, satisfiedCount |-> Len(hits)]

\* The zero-score placeholder of _parallel_worker's except branch.
Placeholder(features) ==
    [score |-> 0, coverage |-> 0, satisfied |-> <<>>, missing |-> features,
     satisfiedCount |-> 0]

\* A plausible slip: the placeholder does not list the checklist as missing.
ParallelWorkerEmptyMissing(d, features, wm, b, fails) ==
    IF fails THEN [Placeholder(features) EXCEPT !.missing = <<>>]
    ELSE AnalyzeWithBase(d, features, wm, b)

\* _parallel_worker(args); fails: the analysis raised inside the worker.
ParallelWorker(d, features, wm, b, fails) ==
    IF fails THEN Placeholder(features) ELSE AnalyzeWithBase(d, features, wm, b)

\* A plausible slip: a checklist whose worker raised is dropped from the list.
MapWorkersDropFailed(fsets, d, wm, b, failing) ==
    LET all == [i \in 1..Len(fsets) |-> ParallelWorker(d, fsets[i], wm, b, FALSE)]
    IN  SelectIdx(all, (1..Len(fsets)) \ failing, 1)

\* [_parallel_worker(arg) for arg in args_iter], also what map_async(...).get()
\* returns; failing: the positions whose analysis raised.
MapWorkers(fsets, d, wm, b, failing) ==
    [i \in 1..Len(fsets) |-> ParallelWorker(d, fsets[i], wm, b, i \in failing)]

\* meta as built at line 847.
BaseMeta(n, w) ==
    [k \in {"evaluated", "workers", "batch"} |->
        CASE k = "evaluated" -> n
          [] k = "workers"   -> Max(1, w)
          [] k = "batch"     -> 1]

\* d with key k set to v (a dict assignment).
Put(d, k, v) == [x \in DOMAIN d \cup {k} |-> IF x = k THEN v ELSE d[x]]

\* _run_sequential's meta_seq, then seq_meta["fallback"] = msg.
SeqMeta(m, msg) == Put(Put(m, "workers", 1), "fallback", msg)

\* meta after a successful thread pool: mode, and the fallback reason of the
\* block (the forced block, lines 869-870, sets none).
ThreadMeta(m, r) ==
    LET m1 == Put(m, "mode", "threads")
    IN  CASE r = "forced"      -> m1
          [] r = "unhealthy"   -> Put(m1, "fallback", "threads - multiprocessing unavailable")
          [] r = "proctimeout" -> Put(m1, "fallback", "threads - process pool timeout")
          [] r = "procfail"    -> Put(m1, "fallback", "threads - process pool failed")
          [] r = "procinit"    -> Put(m1, "fallback", "threads - process pool init failed")

\* The fallback text of the sequential strategy, by block and by what went
\* wrong with the thread pool ("init", "timeout" or "fail").
SeqFallback(r, why) ==
    CASE r = "forced" /\ why = "init"         -> "sequential - thread pool init failed"
      [] r = "forced" /\ why = "timeout"      -> "sequential - thread pool timeout"
      [] r = "forced" /\ why = "fail"         -> "sequential - thread pool failed"
      [] r = "unhealthy" /\ why = "init"      -> "sequential - multiprocessing unavailable"
      [] r = "unhealthy" /\ why = "timeout"   -> "sequential - thread pool timeout; multiprocessing unavailable"
      [] r = "unhealthy" /\ why = "fail"      -> "sequential - thread pool failed; multiprocessing unavailable"
      [] r = "proctimeout" /\ why = "init"    -> "sequential - process timeout; thread init failed"
      [] r = "proctimeout" /\ why = "timeout" -> "sequential - both pools timeout"
      [] r = "proctimeout" /\ why = "fail"    -> "sequential - process timeout; thread failed"
      [] r = "procfail" /\ why = "init"       -> "sequential - process failed; thread init failed"
      [] r = "procfail" /\ why = "timeout"    -> "sequential - thread timeout after process failure"
      [] r = "procfail" /\ why = "fail"       -> "sequential - thread failed after process failure"
      [] r = "procinit" /\ why = "init"       -> "sequential - both pools failed"
      [] r = "procinit" /\ why = "timeout"    -> "sequential - thread timeout after process init failure"
      [] r = "procinit" /\ why = "fail"       -> "sequential - thread failed after process init failure"

\* A plausible slip: a thread pool that cannot be created is not caught.
AfterThreadInitFailureRaise == "raise"

\* A plausible slip: a thread pool that cannot be created sends the call to the
\* process pool.
AfterThreadInitFailureTryProcesses == "p_create"

\* Where the call goes when the thread pool cannot be created or given its
\* jobs: the enclosing `except Exception` runs the sequential strategy.
AfterThreadInitFailure == "seq"

\* _safe_pool_close(pool, force_terminate=True) on a thread pool: terminate()
\* cannot stop a thread, and join() waits for every worker thread, so with
\* workers that hang the call stays in join() (terminated, never joined).
ForcedThreadClose(p, stuck) ==
    IF stuck THEN PoolTerminate(p) ELSE SafePoolClose(p, TRUE)

\* The finally-clauses passed on the way out: every pool variable in scope is
\* closed (not forced).
FinallyClose(ps) ==
    [n \in PoolNames |-> IF n = "probe" THEN ps[n] ELSE SafePoolClose(ps[n], FALSE)]

\* The checklists a call may be given.
FeatureSetChoices == {<<1>>, <<2, 1>>, <<0, 2>>}

DispInit ==
    /\ featureSets \in SeqsUpTo(FeatureSetChoices, MaxSets)
    /\ doc \in {{1}, {1, 2}}
    /\ weightsMap \in {<<>>, <<2>>}
    /\ bonus \in {0, 2000}
    /\ forceThreads \in BOOLEAN
    /\ workers \in {0, 2}
    /\ pc = "start"
    /\ route = "none"
    /\ seqWhy = "none"
    /\ pools = [n \in PoolNames |-> NoPool]
    /\ trail = <<>>
    /\ results = <<>>
    /\ meta = <<>>
    /\ raised = FALSE
    /\ hung \in BOOLEAN
    /\ failedAt = {}

DispFrame == UNCHANGED <<featureSets, doc, weightsMap, bonus, forceThreads, workers, hung,
                         cacheVars, storeVars, keyVars, expVars, bankVars,
                scoreVars, metricVars, failVars, bumpVars, parseVars, sigVars>>

\* Lines 838-851: the empty case, the shared precomputation, the mode override.
Begin ==
    /\ pc = "start"
    /\ \/ /\ featureSets = <<>>
          /\ meta' = [k \in {"evaluated", "workers", "batch"} |->
                        IF k = "batch" THEN 1 ELSE 0]
          /\ pc' = "done"
          /\ UNCHANGED route
       \/ /\ featureSets # <<>>
          /\ meta' = BaseMeta(Len(featureSets), workers)
          /\ IF forceThreads
                THEN pc' = "t_create" /\ route' = "forced"
                ELSE pc' = "probe" /\ UNCHANGED route
    /\ UNCHANGED <<seqWhy, pools, trail, results, raised, failedAt>>
    /\ DispFrame

\* _check_multiprocessing_health, lines 102-105: the probe pool is created, or
\* its creation raises and the probe answers False.
ProbeStart ==
    /\ pc = "probe"
    /\ \/ /\ pools' = [pools EXCEPT !["probe"] = NewPool]
          /\ pc' = "probing"
          /\ UNCHANGED route
       \/ /\ pc' = "t_create"
          /\ route' = "unhealthy"
          /\ UNCHANGED pools
    /\ UNCHANGED <<seqWhy, trail, results, meta, raised, failedAt>>
    /\ DispFrame

\* _check_multiprocessing_health, lines 107-126: the probe job answers (or
\* raises), and the probe pool is closed, terminated and joined.  pool.apply
\* has no timeout: it waits for as long as the probe worker does not answer.
ProbeFinish ==
    /\ pc = "probing"
    /\ ~hung
    /\ pools' = [pools EXCEPT !["probe"] = ProbeClose(@)]
    /\ \/ /\ pc' = "p_create"
          /\ UNCHANGED route
       \/ /\ pc' = "t_create"
          /\ route' = "unhealthy"
    /\ UNCHANGED <<seqWhy, trail, results, meta, raised, failedAt>>
    /\ DispFrame

\* Line 923: mp.Pool(...), or it raises and the block at 991 takes over.
ProcCreate ==
    /\ pc = "p_create"
    /\ trail' = Append(trail, "processes")
    /\ \/ /\ pools' = [pools EXCEPT !["proc"] = NewPool]
          /\ pc' = "p_submit"
          /\ UNCHANGED route
       \/ /\ pc' = "t_create"
          /\ route' = "procinit"
          /\ UNCHANGED pools
    /\ UNCHANGED <<seqWhy, results, meta, raised, failedAt>>
    /\ DispFrame

\* Line 924: pool.map_async(...), or it raises: the finally at 990 closes the
\* pool and the block at 991 takes over.
ProcSubmit ==
    /\ pc = "p_submit"
    /\ \/ /\ pc' = "p_wait"
          /\ UNCHANGED <<route, pools>>
       \/ /\ pools' = [pools EXCEPT !["proc"] = SafePoolClose(@, FALSE)]
          /\ pc' = "t_create"
          /\ route' = "procinit"
    /\ UNCHANGED <<seqWhy, trail, results, meta, raised, failedAt>>
    /\ DispFrame

\* Lines 925-931 and 959-961: job.get(timeout) answers, times out or raises.
ProcWait ==
    /\ pc = "p_wait"
    /\ \/ /\ ~hung
          /\ \E failing \in SUBSET (1..Len(featureSets)) :
                /\ results' = MapWorkers(featureSets, doc, weightsMap, bonus, failing)
                /\ failedAt' = failing
          /\ meta' = Put(meta, "mode", "processes")
          /\ pools' = FinallyClose(pools)
          /\ pc' = "done"
          /\ UNCHANGED route
       \/ /\ pools' = [pools EXCEPT !["proc"] = SafePoolClose(@, TRUE)]
          /\ pc' = "t_create"
          /\ route' = "proctimeout"
          /\ UNCHANGED <<results, meta, failedAt>>
       \/ /\ pools' = [pools EXCEPT !["proc"] = SafePoolClose(@, TRUE)]
          /\ pc' = "t_create"
          /\ route' = "procfail"
          /\ UNCHANGED <<results, meta, failedAt>>
    /\ UNCHANGED <<seqWhy, trail, raised>>
    /\ DispFrame

\* mp_dummy.Pool(...) of the running block (865, 895, 936, 966, 997), or it
\* raises and the block's `except Exception` takes over.
ThreadCreate ==
    /\ pc = "t_create"
    /\ trail' = Append(trail, "threads")
    /\ \/ /\ pools' = [pools EXCEPT !["thread"] = NewPool]
          /\ pc' = "t_submit"
          /\ UNCHANGED seqWhy
       \/ /\ pc' = AfterThreadInitFailure
          /\ seqWhy' = "init"
          /\ UNCHANGED pools
    /\ UNCHANGED <<route, results, meta, raised, failedAt>>
    /\ DispFrame

\* pool.map_async(...) of the running block, or it raises: the block's finally
\* closes the thread pool and its `except Exception` takes over.
ThreadSubmit ==
    /\ pc = "t_submit"
    /\ \/ /\ pc' = "t_wait"
          /\ UNCHANGED <<seqWhy, pools>>
       \/ /\ pools' = [pools EXCEPT !["thread"] = SafePoolClose(@, FALSE)]
          /\ pc' = AfterThreadInitFailure
          /\ seqWhy' = "init"
    /\ UNCHANGED <<route, trail, results, meta, raised, failedAt>>
    /\ DispFrame

\* job.get(timeout) of the running block answers, times out or raises.  After
\* a timeout or a failure the pool is closed by force; with hung threads the
\* join of that close never returns.
ThreadWait ==
    /\ pc = "t_wait"
    /\ \/ /\ ~hung
          /\ \E failing \in SUBSET (1..Len(featureSets)) :
                /\ results' = MapWorkers(featureSets, doc, weightsMap, bonus, failing)
                /\ failedAt' = failing
          /\ meta' = ThreadMeta(meta, route)
          /\ pools' = FinallyClose(pools)
          /\ pc' = "done"
          /\ UNCHANGED seqWhy
       \/ /\ pools' = [pools EXCEPT !["thread"] = ForcedThreadClose(@, hung)]
          /\ pc' = IF hung THEN "t_join" ELSE "seq"
          /\ seqWhy' = "timeout"
          /\ UNCHANGED <<results, meta, failedAt>>
       \/ /\ pools' = [pools EXCEPT !["thread"] = ForcedThreadClose(@, hung)]
          /\ pc' = IF hung THEN "t_join" ELSE "seq"
          /\ seqWhy' = "fail"
          /\ UNCHANGED <<results, meta, failedAt>>
    /\ UNCHANGED <<route, trail, raised>>
    /\ DispFrame

\* _run_sequential (854-857) and the return of its results with the block's
\* fallback text; an exception nothing caught leaves through the same finally
\* clauses instead.
RunSequential ==
    /\ pc \in {"seq", "raise"}
    /\ IF pc = "seq"
          THEN /\ trail' = Append(trail, "sequential")
               /\ \E failing \in SUBSET (1..Len(featureSets)) :
                     /\ results' = MapWorkers(featureSets, doc, weightsMap, bonus, failing)
                     /\ failedAt' = failing
               /\ meta' = SeqMeta(meta, SeqFallback(route, seqWhy))
               /\ UNCHANGED raised
          ELSE /\ raised' = TRUE
               /\ UNCHANGED <<trail, results, meta, failedAt>>
    /\ pools' = FinallyClose(pools)
    /\ pc' = "done"
    /\ UNCHANGED <<route, seqWhy>>
    /\ DispFrame

DispNext ==
    \/ Begin
    \/ ProbeStart
    \/ ProbeFinish
    \/ ProcCreate
    \/ ProcSubmit
    \/ ProcWait
    \/ ThreadCreate
    \/ ThreadSubmit
    \/ ThreadWait
    \/ RunSequential

\* One call of the dispatcher on every input and every pool outcome.
Init == DispInit /\ CacheIdle /\ StoreIdle /\ KeyIdle /\ ExpIdle /\ BankIdle
        /\ ScoreIdle /\ MetricIdle /\ FailIdle /\ BumpIdle /\ ParseIdle /\ SigIdle

Spec == Init /\ [][DispNext]_vars

\* The call goes on whenever one of its steps can be taken.
DispLiveSpec == Spec /\ WF_vars(DispNext)

-----------------------------------------------------------------------------
(* Claims about the Evaluation Dispatcher.                                 *)

Returned == pc = "done" /\ ~raised

Last(s) == s[Len(s)]

\* C1: a returned result list has exactly one entry per feature set, and
\* entry i is the worker's result for featureSets[i] (its analysis, or its
\* zero-score placeholder), whatever the probe and the pools did.
C1_OneResultPerFeatureSet ==
    Returned =>
        /\ Len(results) = Len(featureSets)
        /\ \A i \in 1..Len(featureSets) :
              results[i] \in {AnalyzeWithBase(doc, featureSets[i], weightsMap, bonus),
                              Placeholder(featureSets[i])}

\* C1 witness: two different checklists answered by the sequential strategy
\* after the process pool and the thread pool both gave up.
C1_Witness ==
    /\ Returned
    /\ trail = <<"processes", "threads", "sequential">>
    /\ Len(results) = 2
    /\ featureSets[1] # featureSets[2]
    /\ results[1].satisfiedCount = 0 /\ results[2].satisfiedCount > 0

\* C2: when the call is over, every pool it created has been closed or
\* terminated, and joined.
C2_PoolsJoinedAtReturn ==
    pc = "done" =>
        \A n \in PoolNames :
            pools[n].st # "none" => pools[n].st \in {"close", "term"} /\ pools[n].joined

\* C2 witness: a call that created the probe pool, the process pool and the
\* thread pool, and returned.
C2_Witness ==
    /\ pc = "done"
    /\ \A n \in PoolNames : pools[n].st # "none" /\ pools[n].joined
    /\ route = "proctimeout"

C4_ModeNamesFinalStrategy ==
    (Returned /\ route = "proctimeout") =>
        /\ trail \in {<<"processes", "threads">>, <<"processes", "threads", "sequential">>}
        /\ Len(results) = Len(featureSets)
        /\ "mode" \in DOMAIN meta
        /\ meta["mode"] = Last(trail)
        /\ "fallback" \in DOMAIN meta
        /\ meta["fallback"] # ""

\* C21 (as claimed): the call eventually returns, also when every worker
\* process and thread it starts hangs forever.
C21_EventuallyReturns == <>(pc = "done")

\* The strategy that produced the returned results.
AnsweredBy(strategy) ==
    Returned /\ trail # <<>> /\ Last(trail) = strategy

\* C22 (as claimed): results produced by the sequential strategy come with a
\* meta tagged mode = "sequential" and with one result per checklist.
C22_SequentialTagged ==
    AnsweredBy("sequential") =>
        /\ "mode" \in DOMAIN meta
        /\ meta["mode"] = "sequential"
        /\ Len(results) = Len(featureSets)

\* C23 (as claimed): results produced by the thread pool come with a meta
\* tagged mode = "threads" that carries a non-empty fallback reason.
C23_ThreadsTaggedWithReason ==
    AnsweredBy("threads") =>
        /\ "mode" \in DOMAIN meta
        /\ meta["mode"] = "threads"
        /\ "fallback" \in DOMAIN meta
        /\ meta["fallback"] # ""

\* C24: the process pool is only ever the first strategy of a call; when
\* threads are forced or the health probe failed, no process pool is created
\* for the checklists and the thread pool is the first strategy attempted.
C24_ProcessesOnlyFirst ==
    /\ \A i \in DOMAIN trail : trail[i] = "processes" => i = 1
    /\ (forceThreads \/ route = "unhealthy") =>
           /\ pools["proc"].st = "none"
           /\ \A i \in DOMAIN trail : trail[i] # "processes"
           /\ trail # <<>> => trail[1] = "threads"

\* The probe pool was created and the probe failed; the thread pool was tried
\* first and the sequential strategy answered.
C24_Witness ==
    /\ Returned
    /\ ~forceThreads /\ route = "unhealthy"
    /\ pools["probe"].st # "none"
    /\ trail = <<"threads", "sequential">>

\* The forced-threads call answered by its thread pool.
C24_WitnessForced ==
    /\ Returned /\ forceThreads /\ trail = <<"threads">>

\* A pool whose workers may still be there: created, and not yet both
\* stopped and joined.
PoolAlive(p) == p.st # "none" /\ ~(p.st \in {"close", "term"} /\ p.joined)

\* C25: at no moment are two pools of one call alive; after a timeout as after
\* a failure of a pool's job, the pool has been terminated and joined by the
\* time the next strategy starts.
C25_OnePoolAtATime ==
    /\ Cardinality({n \in PoolNames : PoolAlive(pools[n])}) <= 1
    /\ (pc \in {"t_create", "t_submit", "t_wait", "t_join"}
          /\ route \in {"proctimeout", "procfail"}) =>
           pools["proc"].st = "term" /\ pools["proc"].joined
    /\ (pc = "seq" /\ seqWhy \in {"timeout", "fail"}) =>
           /\ pools["thread"].st = "term" /\ pools["thread"].joined
           /\ \A n \in PoolNames : ~PoolAlive(pools[n])

\* The process pool timed out, then the thread pool timed out: the sequential
\* strategy is about to start with both pools terminated and joined.
C25_Witness ==
    /\ pc = "seq" /\ route = "proctimeout" /\ seqWhy = "timeout"
    /\ pools["proc"].st = "term" /\ pools["proc"].joined
    /\ pools["thread"].st = "term" /\ pools["thread"].joined

\* C26: in results the sequential strategy produced, position i holds the
\* zero-score placeholder of checklist i when scoring it failed, and the
\* analysis of checklist i otherwise, whatever happened at other positions.
C26_SequentialPerChecklist ==
    AnsweredBy("sequential") =>
        /\ Len(results) = Len(featureSets)
        /\ \A i \in 1..Len(featureSets) :
               results[i] = IF i \in failedAt
                            THEN [score |-> 0, coverage |-> 0, satisfied |-> <<>>,
                                  missing |-> featureSets[i], satisfiedCount |-> 0]
                            ELSE AnalyzeWithBase(doc, featureSets[i], weightsMap, bonus)

\* Two checklists scored sequentially: the first failed, the second was
\* scored and has a satisfied feature.
C26_Witness ==
    /\ AnsweredBy("sequential")
    /\ Len(featureSets) = 2 /\ failedAt = {1}
    /\ results[1].score = 0 /\ results[1].missing = featureSets[1]
    /\ results[2].satisfiedCount > 0

-----------------------------------------------------------------------------
(* CACHE STORE                                                             *)
(*                                                                         *)
(* An entry is a dict with keys "key", "ts", "result" and, once written by *)
(* run, "lastAccess".  Time is in whole seconds.                           *)

\* dict.get(k, default)
Get(d, k, default) == IF k \in DOMAIN d THEN d[k] ELSE default

\* kept[-n:] on a Python list: the last n items, and the whole list for n = 0.
PySliceLast(s, n) ==
    IF n = 0 THEN s ELSE SubSeq(s, Max(Len(s) - n, 0) + 1, Len(s))

\* The sort key of line 1814: lastAccess, else ts, else 0.
LastTouch(it) == Get(it, "lastAccess", Get(it, "ts", 0))

\* s with x inserted behind the last item whose sort key is <= x's.
RECURSIVE InsertSorted(_, _)
InsertSorted(s, x) ==
    IF s = <<>> THEN <<x>>
    ELSE IF LastTouch(s[Len(s)]) <= LastTouch(x) THEN Append(s, x)
    ELSE Append(InsertSorted(SubSeq(s, 1, Len(s) - 1), x), s[Len(s)])

\* list.sort(key=...) ascending: a stable sort.
RECURSIVE SortByLastTouch(_)
SortByLastTouch(s) ==
    IF s = <<>> THEN <<>>
    ELSE InsertSorted(SortByLastTouch(SubSeq(s, 1, Len(s) - 1)), s[Len(s)])

\* A plausible slip: the expiry test reads lastAccess instead of ts.
CacheEvictByLastAccess(items, ttlSeconds, maxE, now) ==
    LET kept == SelectSeq(items, LAMBDA it : now - LastTouch(it) <= ttlSeconds)
    IN  IF Len(kept) > maxE THEN PySliceLast(SortByLastTouch(kept), maxE) ELSE kept

\* _cache_evict_and_prune(items, ttl_seconds, max_entries), with now = time.time()
CacheEvictAndPrune(items, ttlSeconds, maxE, now) ==
    LET kept == SelectSeq(items, LAMBDA it : now - Get(it, "ts", now) <= ttlSeconds)
    IN  IF Len(kept) > maxE THEN PySliceLast(SortByLastTouch(kept), maxE) ELSE kept

\* The items of a collection that the expiry test of line 1811 drops.
ExpiredIn(items, ttlSeconds, now) ==
    {items[i] : i \in {j \in DOMAIN items : now - Get(items[j], "ts", now) > ttlSeconds}}

\* Lines 2005-2009: the index of the first item with the key, 0 when none.
HitIndex(items, k) ==
    LET idx == {i \in DOMAIN items : Get(items[i], "key", 0) = k}
    IN  IF idx = {} THEN 0 ELSE CHOOSE i \in idx : \A j \in idx : i <= j

\* A plausible slip: a hit renews the entry's creation time as well.
TouchEntryRenewsTs(entry, now) == Put(Put(entry, "lastAccess", now), "ts", now)

\* entry["lastAccess"] = now (line 2013)
TouchEntry(entry, now) == Put(entry, "lastAccess", now)

CacheKeys == {1, 2, 3}

\* Entries a cache file may hold when the model starts; the one without
\* lastAccess is a row not written by run.
InitialEntries ==
    {[key |-> 1, ts |-> 0, lastAccess |-> 2, result |-> 1],
     [key |-> 2, ts |-> 1, result |-> 2],
     [key |-> 3, ts |-> 1, lastAccess |-> 1, result |-> 3],
     [key |-> 3, ts |-> 0, lastAccess |-> 0, result |-> 3]}

DistinctKeys(s) == \A i, j \in DOMAIN s : i # j => s[i]["key"] # s[j]["key"]

CacheStoreInit ==
    /\ cacheFile \in {f \in SeqsUpTo(InitialEntries, MaxFile) : DistinctKeys(f)}
    /\ clock = 2
    /\ ttl \in {0, 1, 2}
    /\ maxEntries \in {0, 1, 2}
    /\ cpc = "idle"
    /\ cacheKey = 0
    /\ cacheItems = <<>>
    /\ runNow = 0
    /\ lookup = "none"
    /\ hitEntry = <<>>
    /\ expiredSeen = {}
    /\ evictIn = <<>>
    /\ evictOut = <<>>
    /\ evictNow = 0

CacheFrame ==
    UNCHANGED <<ttl, maxEntries, dispVars, storeVars, keyVars, expVars, bankVars,
                scoreVars, metricVars, failVars, bumpVars, parseVars, sigVars>>

\* time.time() advances.
Tick ==
    /\ clock < MaxClock
    /\ clock' = clock + 1
    /\ UNCHANGED <<cacheFile, cpc, cacheKey, cacheItems, runNow, lookup, hitEntry,
                   expiredSeen, evictIn, evictOut, evictNow>>
    /\ CacheFrame

\* run, lines 1997-2030: read the file, evict, look the key up; a hit stamps
\* lastAccess, rewrites the file and returns; a miss goes on to optimize.
RunLookup(k) ==
    /\ cpc = "idle"
    /\ LET items == cacheFile
           kept  == CacheEvictAndPrune(items, ttl, maxEntries, clock)
           idx   == HitIndex(kept, k)
       IN  /\ evictIn' = items
           /\ evictOut' = kept
           /\ evictNow' = clock
           /\ expiredSeen' = ExpiredIn(items, ttl, clock)
           /\ IF idx > 0
                 THEN /\ cacheItems' = [kept EXCEPT ![idx] = TouchEntry(@, clock)]
                      /\ cacheFile' = cacheItems'
                      /\ lookup' = "hit"
                      /\ hitEntry' = kept[idx]
                      /\ cpc' = "idle"
                 ELSE /\ cacheItems' = kept
                      /\ lookup' = "miss"
                      /\ hitEntry' = <<>>
                      /\ cpc' = "optimizing"
                      /\ UNCHANGED cacheFile
    /\ cacheKey' = k
    /\ runNow' = clock
    /\ UNCHANGED clock
    /\ CacheFrame

\* run, lines 2469-2481: after the optimization, replace the key's entry,
\* evict, and rewrite the file.
RunUpsert ==
    /\ cpc = "optimizing"
    /\ LET others == SelectSeq(cacheItems, LAMBDA it : Get(it, "key", 0) # cacheKey)
           items  == Append(others, [key |-> cacheKey, ts |-> runNow,
                                     lastAccess |-> runNow, result |-> cacheKey])
           kept   == CacheEvictAndPrune(items, ttl, maxEntries, clock)
       IN  /\ evictIn' = items
           /\ evictOut' = kept
           /\ evictNow' = clock
           /\ expiredSeen' = expiredSeen \cup ExpiredIn(items, ttl, clock)
           /\ cacheItems' = kept
           /\ cacheFile' = kept
    /\ lookup' = "stored"
    /\ cpc' = "idle"
    /\ UNCHANGED <<clock, cacheKey, runNow, hitEntry>>
    /\ CacheFrame

CacheNext ==
    \/ Tick
    \/ \E k \in CacheKeys : RunLookup(k)
    \/ RunUpsert

CacheInit ==
    DispIdle /\ CacheStoreInit /\ StoreIdle /\ KeyIdle /\ ExpIdle /\ BankIdle
        /\ ScoreIdle /\ MetricIdle /\ FailIdle /\ BumpIdle /\ ParseIdle /\ SigIdle

\* Any sequence of run calls on one cache file while time passes.
CacheSpec == CacheInit /\ [][CacheNext]_vars

\* C5 (as claimed): after an eviction pass with ttl >= 0 and max >= 0 no
\* surviving entry is older than ttl and at most max entries survive.
C5_EvictBounds ==
    (lookup # "none" /\ ttl >= 0 /\ maxEntries >= 0) =>
        /\ \A i \in DOMAIN evictOut : evictNow - evictOut[i]["ts"] <= ttl
        /\ Len(evictOut) <= maxEntries

\* C6: a hit never returns an entry older than ttl; when every entry with
\* the looked-up key is expired the lookup misses; and the collection the
\* next pass writes holds none of the entries found expired.
C6_NoExpiredHit ==
    /\ lookup = "hit" => runNow - hitEntry["ts"] <= ttl
    /\ (/\ lookup \in {"hit", "miss"}
        /\ \A i \in DOMAIN evictIn :
              evictIn[i]["key"] = cacheKey => evictIn[i] \in expiredSeen)
          => lookup = "miss"
    /\ lookup \in {"hit", "stored"} =>
          /\ \A i \in DOMAIN cacheFile : evictNow - cacheFile[i]["ts"] <= ttl
          /\ \A i \in DOMAIN cacheFile : cacheFile[i] \notin expiredSeen

\* C6 witness: a lookup missed because the entry with its key was expired,
\* and the upsert that followed wrote a file without that entry.
C6_Witness ==
    /\ lookup = "stored"
    /\ \E e \in expiredSeen : e["key"] = cacheKey
    /\ \E i \in DOMAIN cacheFile : cacheFile[i]["key"] = cacheKey

\* What the last eviction pass had left after its expiry pruning.
AfterExpiry ==
    SelectSeq(evictIn, LAMBDA it : it \notin ExpiredIn(evictIn, ttl, evictNow))

\* C27 (as claimed): when more than maxEntries entries remain after expiry
\* pruning, exactly maxEntries of them survive the pass, and every dropped
\* entry was last touched no later than every surviving one.
C27_EvictsLeastRecentlyTouched ==
    (lookup # "none" /\ Len(AfterExpiry) > maxEntries) =>
        /\ Len(evictOut) = maxEntries
        /\ \A i \in DOMAIN AfterExpiry, j \in DOMAIN evictOut :
               AfterExpiry[i] \notin Range(evictOut)
                   => LastTouch(AfterExpiry[i]) <= LastTouch(evictOut[j])

\* C28: after a hit the file holds the whole collection that survived the
\* eviction pass, in the same order; the hit entry has lastAccess = the time
\* of the lookup and its key, ts and result as they were stored, every other
\* entry is as it was; the hit entry is within ttl of its creation ts.
C28_HitTouchesLastAccessOnly ==
    lookup = "hit" =>
        LET idx == HitIndex(evictOut, cacheKey)
        IN  /\ idx > 0
            /\ evictOut[idx] = hitEntry
            /\ Len(cacheFile) = Len(evictOut)
            /\ \A i \in DOMAIN cacheFile : i # idx => cacheFile[i] = evictOut[i]
            /\ DOMAIN cacheFile[idx] = DOMAIN hitEntry \cup {"lastAccess"}
            /\ cacheFile[idx]["lastAccess"] = runNow
            /\ \A f \in DOMAIN hitEntry \ {"lastAccess"} :
                   cacheFile[idx][f] = hitEntry[f]
            /\ runNow - cacheFile[idx]["ts"] <= ttl

\* A second hit on an entry, later than the first: the entry's lastAccess is
\* newer than its ts, another entry is in the file with it.
C28_Witness ==
    /\ lookup = "hit"
    /\ Len(cacheFile) = 2
    /\ "lastAccess" \in DOMAIN hitEntry
    /\ hitEntry["lastAccess"] > hitEntry["ts"]
    /\ hitEntry["lastAccess"] < runNow

\* C40 (as claimed): the collection an upsert writes has at most one entry
\* per key, and for maxEntries >= 1 and ttl >= 0 it holds the entry just
\* upserted, so that a lookup of the same key right afterwards would hit.
C40_UpsertedEntryStored ==
    lookup = "stored" =>
        /\ \A i, j \in DOMAIN cacheFile :
               Get(cacheFile[i], "key", 0) = Get(cacheFile[j], "key", 0) => i = j
        /\ (maxEntries >= 1 /\ ttl >= 0) =>
               /\ \E i \in DOMAIN cacheFile : Get(cacheFile[i], "key", 0) = cacheKey
               /\ HitIndex(CacheEvictAndPrune(cacheFile, ttl, maxEntries, clock),
                           cacheKey) > 0

\* The same for a run that took no longer than ttl.
UpsertedEntryStoredWhenRunWithinTtl ==
    (lookup = "stored" /\ maxEntries >= 1 /\ evictNow - runNow <= ttl) =>
        /\ \A i, j \in DOMAIN cacheFile :
               Get(cacheFile[i], "key", 0) = Get(cacheFile[j], "key", 0) => i = j
        /\ \E i \in DOMAIN cacheFile :
               /\ Get(cacheFile[i], "key", 0) = cacheKey
               /\ Get(cacheFile[i], "ts", 0) = runNow


-----------------------------------------------------------------------------
(* STORE REWRITE                                                           *)
(*                                                                         *)
(* _cache_write_all and _write_experiences are the same code over two      *)
(* files.  The file at the store path is a sequence of lines, one record   *)
(* (a small number) each; 0 is a hole left by a write behind the end of    *)
(* the file.  os.replace puts a new file at the path: handles that were    *)
(* open on the old one keep writing to the old one.                        *)

Procs == {1, 2}

\* The records in the store when the model starts.
InitialRecords == <<1, 2>>

\* The collections a process may rewrite the store with.
WriteChoices == {<<3>>, <<2, 3>>}

\* _cache_iter / _exp_iter: the lines that parse; a hole and the line it runs
\* into do not.
ParseLines(f) ==
    SelectIdx(f, {i \in DOMAIN f : f[i] # 0 /\ (i = 1 \/ f[i - 1] # 0)}, 1)

\* handle.write(line) at offset off of a file open in mode 'w'.
WriteAt(f, off, r) ==
    IF off < Len(f) THEN [f EXCEPT ![off + 1] = r]
    ELSE f \o [i \in 1..(off - Len(f)) |-> 0] \o <<r>>

StoreFileInit ==
    /\ target = InitialRecords
    /\ lockHolder = 0
    /\ hasFcntl \in BOOLEAN
    /\ wpc = [p \in Procs |-> "idle"]
    /\ wItems = [p \in Procs |-> <<>>]
    /\ wPos = [p \in Procs |-> 0]
    /\ wTmp = [p \in Procs |-> <<>>]
    /\ wOut = [p \in Procs |-> <<>>]
    /\ wPrior = [p \in Procs |-> <<>>]
    /\ wFailed = [p \in Procs |-> FALSE]
    /\ wAlone = [p \in Procs |-> TRUE]
    /\ hStale = [p \in Procs |-> FALSE]
    /\ hOff = [p \in Procs |-> 0]
    /\ readSeen = InitialRecords
    /\ committed = {InitialRecords}
    /\ writesBegun = 0

StoreFrame ==
    UNCHANGED <<hasFcntl, dispVars, cacheVars, keyVars, expVars, bankVars,
                scoreVars, metricVars, failVars, bumpVars, parseVars, sigVars>>

StoreStep == StoreFrame /\ UNCHANGED writesBegun

\* wAlone after process p changed the file at the store path.
Disturbed(p) ==
    [q \in Procs |-> IF q # p /\ wpc[q] # "idle" THEN FALSE ELSE wAlone[q]]

\* Lines 1705-1712 (388-395): a call of the rewrite with a collection.
WriteBegin(p, items) ==
    /\ wpc[p] \in {"idle", "done"}
    /\ writesBegun < MaxWrites
    /\ writesBegun' = writesBegun + 1
    /\ wpc' = [wpc EXCEPT ![p] = "tmp_open"]
    /\ wItems' = [wItems EXCEPT ![p] = items]
    /\ wPrior' = [wPrior EXCEPT ![p] = target]
    /\ wFailed' = [wFailed EXCEPT ![p] = FALSE]
    /\ wAlone' = [wAlone EXCEPT ![p] = TRUE]
    /\ wPos' = [wPos EXCEPT ![p] = 0]
    /\ UNCHANGED <<target, lockHolder, wTmp, wOut, hStale, hOff, readSeen, committed>>
    /\ StoreFrame

\* Lines 1714-1715 (397-398): open(tmp, "w"), or it raises and the fallback
\* takes over.
TmpOpen(p) ==
    /\ wpc[p] = "tmp_open"
    /\ \/ /\ wpc' = [wpc EXCEPT ![p] = "tmp_write"]
          /\ wTmp' = [wTmp EXCEPT ![p] = <<>>]
          /\ UNCHANGED wFailed
       \/ /\ wpc' = [wpc EXCEPT ![p] = "fb_open"]
          /\ wFailed' = [wFailed EXCEPT ![p] = TRUE]
          /\ UNCHANGED wTmp
    /\ UNCHANGED <<target, lockHolder, wItems, wPos, wOut, wPrior, wAlone, hStale,
                   hOff, readSeen, committed>>
    /\ StoreStep

\* Lines 1717-1721 (400-404): one turn of the loop; a write that raises is
\* skipped (`continue`).
TmpWrite(p) ==
    /\ wpc[p] = "tmp_write"
    /\ wPos[p] < Len(wItems[p])
    /\ wPos' = [wPos EXCEPT ![p] = @ + 1]
    /\ \/ /\ wTmp' = [wTmp EXCEPT ![p] = Append(@, wItems[p][wPos[p] + 1])]
          /\ UNCHANGED wFailed
       \/ /\ wFailed' = [wFailed EXCEPT ![p] = TRUE]
          /\ UNCHANGED wTmp
    /\ UNCHANGED <<target, lockHolder, wpc, wItems, wOut, wPrior, wAlone, hStale,
                   hOff, readSeen, committed>>
    /\ StoreStep

\* Lines 1722-1727 (405-410): unlock, close, os.replace(tmp, path); or the
\* close or the replace raises and the fallback takes over.
TmpReplace(p) ==
    /\ wpc[p] = "tmp_write"
    /\ wPos[p] = Len(wItems[p])
    /\ \/ /\ target' = wTmp[p]
          /\ lockHolder' = 0
          /\ hStale' = [q \in Procs |-> wpc[q] \in {"fb_lock", "fb_write"}]
          /\ wAlone' = Disturbed(p)
          /\ committed' = committed \cup {wTmp[p]}
          /\ wpc' = [wpc EXCEPT ![p] = "done"]
          /\ wTmp' = [wTmp EXCEPT ![p] = <<>>]
          /\ wPos' = [wPos EXCEPT ![p] = 0]
          /\ UNCHANGED wFailed
       \/ /\ wpc' = [wpc EXCEPT ![p] = "fb_open"]
          /\ wFailed' = [wFailed EXCEPT ![p] = TRUE]
          /\ wTmp' = [wTmp EXCEPT ![p] = <<>>]
          /\ wPos' = [wPos EXCEPT ![p] = 0]
          /\ UNCHANGED <<target, lockHolder, hStale, wAlone, committed>>
    /\ UNCHANGED <<wItems, wOut, wPrior, hOff, readSeen>>
    /\ StoreStep

\* _file_lock_context(path, 'w'), line 195: open(path, 'w') truncates the
\* file; or it raises, which the rewrite swallows (lines 1736-1737).
FallbackOpen(p) ==
    /\ wpc[p] = "fb_open"
    /\ \/ /\ target' = <<>>
          /\ hStale' = [hStale EXCEPT ![p] = FALSE]
          /\ hOff' = [hOff EXCEPT ![p] = 0]
          /\ wOut' = [wOut EXCEPT ![p] = <<>>]
          /\ wAlone' = Disturbed(p)
          /\ wpc' = [wpc EXCEPT ![p] = "fb_lock"]
          /\ UNCHANGED wFailed
       \/ /\ wpc' = [wpc EXCEPT ![p] = "done"]
          /\ wFailed' = [wFailed EXCEPT ![p] = TRUE]
          /\ UNCHANGED <<target, hStale, hOff, wOut, wAlone>>
    /\ UNCHANGED <<lockHolder, wItems, wPos, wTmp, wPrior, readSeen, committed>>
    /\ StoreStep

\* _acquire_file_lock, lines 164-173: flock(LOCK_EX) waits for the lock;
\* without fcntl the write goes on unlocked.
FallbackLock(p) ==
    /\ wpc[p] = "fb_lock"
    /\ IF hasFcntl /\ ~hStale[p]
          THEN lockHolder = 0 /\ lockHolder' = p
          ELSE UNCHANGED lockHolder
    /\ wpc' = [wpc EXCEPT ![p] = "fb_write"]
    /\ wPos' = [wPos EXCEPT ![p] = 0]
    /\ UNCHANGED <<target, wItems, wTmp, wOut, wPrior, wFailed, wAlone, hStale, hOff,
                   readSeen, committed>>
    /\ StoreStep

\* Lines 1731-1735 (414-418): one turn of the fallback's loop; a write that
\* raises is skipped.
FallbackWrite(p) ==
    /\ wpc[p] = "fb_write"
    /\ wPos[p] < Len(wItems[p])
    /\ wPos' = [wPos EXCEPT ![p] = @ + 1]
    /\ \/ /\ target' = IF hStale[p] THEN target
                        ELSE WriteAt(target, hOff[p], wItems[p][wPos[p] + 1])
          /\ hOff' = [hOff EXCEPT ![p] = @ + 1]
          /\ wOut' = [wOut EXCEPT ![p] = Append(@, wItems[p][wPos[p] + 1])]
          /\ wAlone' = IF hStale[p] THEN wAlone ELSE Disturbed(p)
          /\ UNCHANGED wFailed
       \/ /\ wFailed' = [wFailed EXCEPT ![p] = TRUE]
          /\ UNCHANGED <<target, hOff, wOut, wAlone>>
    /\ UNCHANGED <<lockHolder, wpc, wItems, wTmp, wPrior, hStale, readSeen, committed>>
    /\ StoreStep

\* _file_lock_context's finally (198-205) and the cleanup of the temporary
\* file (1738-1744): unlock, close, return.
FallbackClose(p) ==
    /\ wpc[p] = "fb_write"
    /\ wPos[p] = Len(wItems[p])
    /\ lockHolder' = IF lockHolder = p THEN 0 ELSE lockHolder
    /\ committed' = committed \cup {wOut[p]}
    /\ wpc' = [wpc EXCEPT ![p] = "done"]
    /\ wPos' = [wPos EXCEPT ![p] = 0]
    /\ wOut' = [wOut EXCEPT ![p] = <<>>]
    /\ hOff' = [hOff EXCEPT ![p] = 0]
    /\ hStale' = [hStale EXCEPT ![p] = FALSE]
    /\ UNCHANGED <<target, wItems, wTmp, wPrior, wFailed, wAlone, readSeen>>
    /\ StoreStep

\* list(_cache_iter(path)) / _exp_iter: a process reads the store; no lock
\* is taken.
ReadStore(p) ==
    /\ wpc[p] \in {"idle", "done"}
    /\ readSeen' = ParseLines(target)
    /\ UNCHANGED <<target, lockHolder, wpc, wItems, wPos, wTmp, wOut, wPrior, wFailed,
                   wAlone, hStale, hOff, committed>>
    /\ StoreStep

StoreNext ==
    \E p \in Procs :
        \/ \E items \in WriteChoices : WriteBegin(p, items)
        \/ TmpOpen(p)
        \/ TmpWrite(p)
        \/ TmpReplace(p)
        \/ FallbackOpen(p)
        \/ FallbackLock(p)
        \/ FallbackWrite(p)
        \/ FallbackClose(p)
        \/ ReadStore(p)

StoreInit ==
    DispIdle /\ CacheIdle /\ StoreFileInit /\ KeyIdle /\ ExpIdle /\ BankIdle
        /\ ScoreIdle /\ MetricIdle /\ FailIdle /\ BumpIdle /\ ParseIdle /\ SigIdle

\* Two processes rewriting and reading one store file, every step of a
\* rewrite free to fail.
StoreSpec == StoreInit /\ [][StoreNext]_vars

\* C7 (as claimed): when a rewrite has failed at some step, the file holds
\* exactly the records it held before the call (here: for a rewrite during
\* which no other process touched the file).
C7_FailedRewriteLeavesFileIntact ==
    \A p \in Procs :
        (/\ wpc[p] = "done"
         /\ wAlone[p]
         /\ wFailed[p]
         /\ ParseLines(target) # wItems[p])
            => target = wPrior[p]

\* C8 (as claimed): every read returns the complete record set of some
\* completed write (or the records the file started with).
C8_ReadsSeeCompleteWrites == readSeen \in committed

\* C20 (as claimed): a process that has reached the lock step of a store
\* operation can always go on, with the lock or without it, whether the
\* locking primitive is missing or another process holds the lock.
C20_NeverWaitsForLock ==
    \A p \in Procs : wpc[p] = "fb_lock" => ENABLED FallbackLock(p)

-----------------------------------------------------------------------------
(* CACHE KEY                                                               *)
(*                                                                         *)
(* A JSON value is a tagged pair: <<"atom", s>> for a scalar (s is its     *)
(* JSON text), <<"dict", pairs>> for an object, whose pairs <<name, value>>*)
(* stand in insertion order as in a Python dict, and <<"list", items>>.    *)

Atom(s)  == <<"atom", s>>
Dict(ps) == <<"dict", ps>>
List(xs) == <<"list", xs>>
None     == Atom("None")

\* Python truthiness, as `or` and bool() see it.
Truthy(v) ==
    IF v[1] = "atom" THEN v[2] \notin {"None", "", "0", "False"}
    ELSE Len(v[2]) > 0

\* x or default
Or(v, default) == IF Truthy(v) THEN v ELSE default

DictKeys(d) == {d[2][i][1] : i \in DOMAIN d[2]}

\* d.get(name, default)
DictGet(d, name, default) ==
    IF name \in DictKeys(d)
    THEN d[2][CHOOSE i \in DOMAIN d[2] : d[2][i][1] = name][2]
    ELSE default

\* Every object name that can occur in a key object, in code-point order:
\* the order json.dumps(sort_keys=True) writes them in.
KeyOrder ==
    << "alwaysFullValidation", "auto", "basePrompt", "checkpointPath",
       "earlyStopOnPerfect", "earlyStopStreak", "enforceSchema",
       "evalTimeoutMs", "experienceMinScore", "experiencePath",
       "experienceTopK", "featureWeights", "grounding", "id",
       "initialInstructions", "jsonBonus", "label", "maxMetricCalls",
       "maxTokens", "minValidationSize", "model", "note",
       "parallelBatchSize", "parallelEval", "parallelWorkers",
       "persistExperience", "persona", "progressiveSchedule",
       "referencePrompts", "reflectionMaxTokens", "reflectionModel",
       "reflectionTemperature", "requirements", "rpmLimit", "schemaType",
       "seed", "shots", "temperature", "timecode", "titleHint" >>

\* json.dumps without sort_keys: objects are written in insertion order.
JsonDumpsInsertionOrder(v) == v

\* json.dumps(v, sort_keys=True): the names of every object, nested ones
\* included, are written in sorted order; lists keep their order.  The text
\* is represented by the value it denotes with every object's pairs sorted.
RECURSIVE JsonDumps(_)
JsonDumps(v) ==
    IF v[1] = "atom" THEN v
    ELSE IF v[1] = "list"
    THEN List([i \in DOMAIN v[2] |-> JsonDumps(v[2][i])])
    ELSE LET names == SelectSeq(KeyOrder, LAMBDA n : n \in DictKeys(v))
         IN  Dict([i \in DOMAIN names |->
                     <<names[i], JsonDumps(DictGet(v, names[i], None))>>])

\* The four fields of a shot that enter the key.
ShotNorm(s) ==
    Dict(<< <<"id", DictGet(s, "id", None)>>,
            <<"timecode", DictGet(s, "timecode", None)>>,
            <<"label", DictGet(s, "label", None)>>,
            <<"note", DictGet(s, "note", None)>> >>)

ShotsNorm(payload) ==
    LET shots == Or(DictGet(payload, "shots", List(<<>>)), List(<<>>))
    IN  List([i \in DOMAIN shots[2] |-> ShotNorm(shots[2][i])])

\* The fields of key_obj in the order the code writes them, each with the
\* way its value is taken from the payload: "get" is payload.get(name),
\* "bool" is bool(payload.get(name, False)), "text" is payload.get(name) or "",
\* "object" is payload.get(name) or {}, "shots" is the normalised shot list.
KeyObjFields ==
    << <<"schemaType", "get">>, <<"enforceSchema", "bool">>,
       <<"titleHint", "text">>, <<"shots", "shots">>,
       <<"basePrompt", "object">>, <<"referencePrompts", "object">>,
       <<"model", "get">>, <<"reflectionModel", "get">>,
       <<"temperature", "get">>, <<"reflectionTemperature", "get">>,
       <<"maxTokens", "get">>, <<"reflectionMaxTokens", "get">>,
       <<"rpmLimit", "get">>, <<"jsonBonus", "get">>,
       <<"featureWeights", "object">>, <<"auto", "get">>,
       <<"maxMetricCalls", "get">>, <<"seed", "get">>,
       <<"initialInstructions", "text">>, <<"experiencePath", "text">>,
       <<"experienceTopK", "get">>, <<"experienceMinScore", "get">>,
       <<"persistExperience", "get">>, <<"checkpointPath", "text">>,
       <<"alwaysFullValidation", "get">>, <<"progressiveSchedule", "get">>,
       <<"minValidationSize", "get">>, <<"earlyStopOnPerfect", "get">>,
       <<"earlyStopStreak", "get">>, <<"parallelEval", "get">>,
       <<"parallelWorkers", "get">>, <<"parallelBatchSize", "get">>,
       <<"evalTimeoutMs", "get">> >>

\* The payload fields the key is built from.
KeyFields == {KeyObjFields[i][1] : i \in DOMAIN KeyObjFields}

KeyFieldValue(payload, name, how) ==
    CASE how = "get"    -> DictGet(payload, name, None)
      [] how = "bool"   -> IF Truthy(DictGet(payload, name, Atom("False")))
                           THEN Atom("True") ELSE Atom("False")
      [] how = "text"   -> Or(DictGet(payload, name, None), Atom(""))
      [] how = "object" -> Or(DictGet(payload, name, Dict(<<>>)), Dict(<<>>))
      [] how = "shots"  -> ShotsNorm(payload)

\* key_obj of _build_cache_key.
KeyObj(payload) ==
    Dict([i \in DOMAIN KeyObjFields |->
            <<KeyObjFields[i][1],
              KeyFieldValue(payload, KeyObjFields[i][1], KeyObjFields[i][2])>>])

\* _build_cache_key: the SHA-256 digest of the canonical text.  The digest
\* is taken to be collision free and is represented by the text it hashes.
BuildCacheKey(payload) == JsonDumps(KeyObj(payload))

\* ---- payloads the requests are drawn from ----

Reverse(s) == [i \in DOMAIN s |-> s[Len(s) + 1 - i]]

BasePromptChoices ==
    { Dict(<< <<"persona", Atom("p1")>>, <<"requirements", Atom("r1")>> >>),
      Dict(<< <<"requirements", Atom("r1")>>, <<"persona", Atom("p1")>> >>),
      Dict(<< <<"persona", Atom("p2")>>, <<"requirements", Atom("r1")>> >>) }

\* One shot, written with its fields in either order; the shot's "thumb"
\* field does not enter the key.
ShotsChoices ==
    { List(<< Dict(<< <<"id", Atom("s1")>>, <<"timecode", Atom("00:05")>>,
                      <<"thumb", Atom("a.png")>> >>) >>),
      List(<< Dict(<< <<"thumb", Atom("a.png")>>, <<"timecode", Atom("00:05")>>,
                      <<"id", Atom("s1")>> >>) >>) }

\* clearCache is a payload field that does not enter the key.
ClearCacheChoices == { <<>>, << <<"clearCache", Atom("True")>> >> }

PayloadFieldChoices ==
    { << <<"schemaType", Atom("tutorial")>>, <<"basePrompt", bp>>,
         <<"shots", sh>> >> \o cc :
        bp \in BasePromptChoices, sh \in ShotsChoices, cc \in ClearCacheChoices }

\* Each choice of fields, written in either order.
PayloadChoices ==
    {Dict(p) : p \in PayloadFieldChoices}
        \cup {Dict(Reverse(p)) : p \in PayloadFieldChoices}

Requests == {"A", "B"}

PayloadOf(w) == IF w = "A" THEN payloadA ELSE payloadB

KeyStoreInit ==
    /\ payloadA \in PayloadChoices
    /\ payloadB \in PayloadChoices
    /\ keyA = None /\ keyB = None
    /\ served = <<>>
    /\ keyStore = {}
    /\ keyHit = FALSE

KeyFrame == UNCHANGED <<dispVars, cacheVars, storeVars, expVars, bankVars,
                scoreVars, metricVars, failVars, bumpVars, parseVars, sigVars>>

\* One run for payload w, as far as the cache key is concerned: clearCache
\* removes the cache file, the key is built, the cached entries are searched
\* for it, and the run's entry stands under that key when the run ends (the
\* entry found, or the one the run stores).
Request(w) ==
    /\ w \notin Range(served)
    /\ LET payload == PayloadOf(w)
           cleared == Truthy(DictGet(payload, "clearCache", Atom("False")))
           before  == IF cleared THEN {} ELSE keyStore
           key     == BuildCacheKey(payload)
       IN  /\ keyHit' = (key \in before)
           /\ keyStore' = before \cup {key}
           /\ keyA' = IF w = "A" THEN key ELSE keyA
           /\ keyB' = IF w = "B" THEN key ELSE keyB
    /\ served' = Append(served, w)
    /\ UNCHANGED <<payloadA, payloadB>>
    /\ KeyFrame

KeyNext == \E w \in Requests : Request(w)

KeyInit ==
    DispIdle /\ CacheIdle /\ StoreIdle /\ KeyStoreInit /\ ExpIdle /\ BankIdle
        /\ ScoreIdle /\ MetricIdle /\ FailIdle /\ BumpIdle /\ ParseIdle /\ SigIdle

KeySpec == KeyInit /\ [][KeyNext]_vars

\* ---- claims about the cache key ----

\* Python's == on JSON values: objects compare without regard to the order
\* of their names, lists element by element.
RECURSIVE ValEq(_, _)
ValEq(v, w) ==
    IF v[1] # w[1] THEN FALSE
    ELSE IF v[1] = "atom" THEN v[2] = w[2]
    ELSE IF v[1] = "list"
    THEN /\ Len(v[2]) = Len(w[2])
         /\ \A i \in DOMAIN v[2] : ValEq(v[2][i], w[2][i])
    ELSE /\ DictKeys(v) = DictKeys(w)
         /\ \A n \in DictKeys(v) : ValEq(DictGet(v, n, None), DictGet(w, n, None))

\* The two payloads agree on every field the key is built from.
KeyFieldsEqual ==
    \A n \in KeyFields :
        /\ (n \in DictKeys(payloadA)) = (n \in DictKeys(payloadB))
        /\ n \in DictKeys(payloadA) =>
               ValEq(DictGet(payloadA, n, None), DictGet(payloadB, n, None))

BothServed == Len(served) = 2

\* The payload served second asked for the cache to be cleared.
SecondCleared ==
    /\ BothServed
    /\ Truthy(DictGet(PayloadOf(served[2]), "clearCache", Atom("False")))

-----------------------------------------------------------------------------
(* EXPERIENCE BANK: retrieval                                              *)
(*                                                                         *)
(* Scores, similarities and weights are fixed-point numbers: a score s is  *)
(* held as s * ScoreScale.  Time is counted in whole days.  A record's     *)
(* text and a query's text are bags of tokens, as _text2bow returns them.  *)

Tokens == {"intro", "setup"}

IntroOnly  == [t \in Tokens |-> IF t = "intro" THEN 1 ELSE 0]
IntroSetup == [t \in Tokens |-> 1]

\* The bags a text can have: token -> number of occurrences.
BowChoices == {IntroOnly, IntroSetup}

Dot(a, b) == a["intro"] * b["intro"] + a["setup"] * b["setup"]

\* The integer square root: the largest r in lo..hi with r * r <= n.
RECURSIVE ISqrt(_, _, _)
ISqrt(n, lo, hi) ==
    IF lo >= hi THEN lo
    ELSE LET mid == (lo + hi + 1) \div 2
         IN  IF mid * mid <= n THEN ISqrt(n, mid, hi) ELSE ISqrt(n, lo, mid - 1)

\* _cosine, times ScoreScale: numerator / (sqrt(a.a) * sqrt(b.b)), and 0 when
\* the denominator is 0.  The denominator is computed to three decimals.
Cosine(a, b) ==
    LET denominator == ISqrt(Dot(a, a) * Dot(b, b) * 1000000, 0, 46340)
    IN  IF denominator = 0 THEN 0
        ELSE (Dot(a, b) * 1000 * ScoreScale) \div denominator

\* min(0.1, 0.03 * log1p(usage)) times ScoreScale, for the usage counts the
\* model's records carry; the cap of 0.1 is reached from usage 28 on.
UsageBonus(usage) ==
    CASE usage <= 0 -> 0
      [] usage = 1  -> 208
      [] usage = 2  -> 330
      [] usage = 3  -> 416
      [] OTHER      -> 1000

\* 1 / max(1, age in days), times ScoreScale; an age below one second counts
\* as one second, so a record from the future is as fresh as can be.
RecencyBonus(now, ts) == ScoreScale \div Max(1, now - ts)

\* The blended weight of a candidate, times 10 * ScoreScale:
\* 0.7 * similarity + 0.2 * score + 0.1 * recency + usage bonus.
Weight(item, queryBow, now) ==
    7 * Cosine(queryBow, item.bow) + 2 * item.score
        + RecencyBonus(now, item.ts) + 10 * UsageBonus(item.usageCount)

\* The filter without the score test.
EligibleAnyScore(item, schemaType, minScore) ==
    /\ item.schemaType = schemaType
    /\ item.parsed

\* The filter of the scan: the record is of the queried schema type, its
\* parsed flag is truthy and its score is not below min_score.
Eligible(item, schemaType, minScore) ==
    /\ item.schemaType = schemaType
    /\ item.parsed
    /\ item.score >= minScore

\* candidates.sort(key=weight, reverse=True): a stable sort, so candidates
\* of equal weight stay in scan order.  Sorts a sequence of <<weight, item>>.
RECURSIVE InsertByWeightTiesFirst(_, _)
InsertByWeightTiesFirst(s, x) ==
    IF s = <<>> THEN <<x>>
    ELSE IF x[1] >= s[1][1] THEN <<x>> \o s
    ELSE <<s[1]>> \o InsertByWeightTiesFirst(Tail(s), x)

RECURSIVE InsertByWeight(_, _)
InsertByWeight(s, x) ==
    IF s = <<>> THEN <<x>>
    ELSE IF x[1] > s[1][1] THEN <<x>> \o s
    ELSE <<s[1]>> \o InsertByWeight(Tail(s), x)

RECURSIVE SortByWeight(_)
SortByWeight(s) ==
    IF s = <<>> THEN <<>>
    ELSE InsertByWeight(SortByWeight(SubSeq(s, 1, Len(s) - 1)), s[Len(s)])

\* _retrieve_experiences over the records of the store file.
RetrieveExperiences(store, schemaType, queryBow, topK, minScore, now) ==
    IF topK <= 0 THEN <<>>
    ELSE LET keep   == {i \in DOMAIN store : Eligible(store[i], schemaType, minScore)}
             kept   == SelectIdx(store, keep, 1)
             cands  == [i \in DOMAIN kept |-> <<Weight(kept[i], queryBow, now), kept[i]>>]
             sorted == SortByWeight(cands)
         IN  [i \in 1..Min(topK, Len(sorted)) |-> sorted[i][2]]

\* The test of the prune's scan, with the age test left on when max_age_days
\* is 0.
PruneKeepsAgeAlwaysOn(item, threshold, maxAgeDays, now) ==
    ~(item.score < threshold \/ (now - item.ts) > Max(0, maxAgeDays))

\* The test of the prune's scan: the record is dropped when its score is
\* below the threshold or when it is too old, which it can only be when
\* max(0, max_age_days) is positive.
PruneKeeps(item, threshold, maxAgeDays, now) ==
    LET maxAge == Max(0, maxAgeDays)
        tooOld == maxAge > 0 /\ (now - item.ts) > maxAge
    IN  ~(item.score < threshold \/ tooOld)

\* The records _prune_experiences writes back, in scan order.
PruneExperiences(store, threshold, maxAgeDays, now) ==
    SelectIdx(store,
              {i \in DOMAIN store : PruneKeeps(store[i], threshold, maxAgeDays, now)},
              1)

\* The counts _prune_experiences returns.
PruneCounts(store, threshold, maxAgeDays, now) ==
    LET before == Len(store)
        after  == Len(PruneExperiences(store, threshold, maxAgeDays, now))
    IN  [before |-> before, after |-> after, removed |-> before - after]

\* ---- the store contents and the queries of the model ----

Experience(id, schemaType, score, parsed, ts, bow, usageCount) ==
    [id |-> id, schemaType |-> schemaType, score |-> score, parsed |-> parsed,
     ts |-> ts, bow |-> bow, usageCount |-> usageCount]

\* Three parsed tutorial records scored 0.9, 0.4 and 0.95, a record of
\* another schema type, a record that did not parse, and a record that
\* weighs the same as the first for every query.
ExperienceChoices ==
    { Experience("e1", "tutorial", 9000, TRUE, 3, IntroOnly, 0),
      Experience("e2", "tutorial", 4000, TRUE, 4, IntroOnly, 3),
      Experience("e3", "tutorial", 9500, TRUE, 1, IntroSetup, 0),
      Experience("e4", "meetingSummary", 9500, TRUE, 4, IntroOnly, 1),
      Experience("e5", "tutorial", 9500, FALSE, 4, IntroOnly, 0),
      Experience("e6", "tutorial", 9000, TRUE, 3, IntroOnly, 0) }

SchemaTypes     == {"tutorial", "meetingSummary"}
TopKChoices     == {0, 1, 2}
MinScoreChoices == {0, 5000}

ThresholdChoices == {5000, 9000}
MaxAgeChoices    == {0, 1, 2}

NoPrune  == [threshold |-> 0, maxAgeDays |-> 0]
NoCounts == [before |-> 0, after |-> 0, removed |-> 0]

NoQuery == [schemaType |-> "none", bow |-> IntroOnly, topK |-> 0, minScore |-> 0]

ExpStoreInit ==
    /\ expStore \in SeqsUpTo(ExperienceChoices, MaxRecords)
    /\ expNow = 4
    /\ query = NoQuery
    /\ retrieved = <<>>
    /\ epc = "idle"
    /\ expPrior = <<>>
    /\ pruneArgs = NoPrune
    /\ pruneCounts = NoCounts

ExpFrame ==
    UNCHANGED <<dispVars, cacheVars, storeVars, keyVars, bankVars, scoreVars, metricVars, failVars, bumpVars, parseVars, sigVars>>

\* One call of _retrieve_experiences.  A missing store file gives the same
\* answer as a file without records.
Retrieve(schemaType, queryBow, topK, minScore) ==
    /\ epc = "idle"
    /\ query' = [schemaType |-> schemaType, bow |-> queryBow, topK |-> topK,
                 minScore |-> minScore]
    /\ retrieved' = RetrieveExperiences(expStore, schemaType, queryBow, topK,
                                        minScore, expNow)
    /\ epc' = "done"
    /\ UNCHANGED <<expStore, expNow, expPrior, pruneArgs, pruneCounts>>
    /\ ExpFrame

\* One call of _prune_experiences whose rewrite of the store goes through.
\* A missing store file is left missing and gives the counts of a file
\* without records.
Prune(threshold, maxAgeDays) ==
    /\ epc = "idle"
    /\ expPrior' = expStore
    /\ pruneArgs' = [threshold |-> threshold, maxAgeDays |-> maxAgeDays]
    /\ expStore' = PruneExperiences(expStore, threshold, maxAgeDays, expNow)
    /\ pruneCounts' = PruneCounts(expStore, threshold, maxAgeDays, expNow)
    /\ epc' = "pruned"
    /\ UNCHANGED <<expNow, query, retrieved>>
    /\ ExpFrame

ExpNext ==
    \/ \E schemaType \in SchemaTypes, queryBow \in BowChoices,
          topK \in TopKChoices, minScore \in MinScoreChoices :
           Retrieve(schemaType, queryBow, topK, minScore)
    \/ \E threshold \in ThresholdChoices, maxAgeDays \in MaxAgeChoices :
           Prune(threshold, maxAgeDays)

ExpInit ==
    DispIdle /\ CacheIdle /\ StoreIdle /\ KeyIdle /\ ExpStoreInit /\ BankIdle
        /\ ScoreIdle /\ MetricIdle /\ FailIdle /\ BumpIdle /\ ParseIdle /\ SigIdle

ExpSpec == ExpInit /\ [][ExpNext]_vars

\* ---- claims about retrieval ----

\* C10: whatever the store holds and whatever is asked, every record a
\* retrieve returns has the queried schemaType, a true parsed flag and a
\* score of at least minScore.
C10_RetrievedAreEligible ==
    epc = "done" =>
        \A i \in DOMAIN retrieved :
            /\ retrieved[i].schemaType = query.schemaType
            /\ retrieved[i].parsed
            /\ retrieved[i].score >= query.minScore

\* A retrieve returned fewer records than it was asked for, from a store
\* that also held a record of another schema type, a record that did not
\* parse and a record scored below minScore.
C10_Witness ==
    /\ epc = "done"
    /\ retrieved # <<>>
    /\ Len(retrieved) < query.topK
    /\ \E i \in DOMAIN expStore : expStore[i].schemaType # query.schemaType
    /\ \E i \in DOMAIN expStore :
           /\ expStore[i].schemaType = query.schemaType
           /\ ~expStore[i].parsed
           /\ expStore[i].score >= query.minScore
    /\ \E i \in DOMAIN expStore :
           /\ expStore[i].schemaType = query.schemaType
           /\ expStore[i].parsed
           /\ expStore[i].score < query.minScore

\* The positions of the store a query's filter keeps.
EligiblePositions ==
    {i \in DOMAIN expStore : Eligible(expStore[i], query.schemaType, query.minScore)}

WeightAt(i) == Weight(expStore[i], query.bow, expNow)

\* Position i ranks before position j: heavier, or as heavy and scanned first.
RanksBefore(i, j) ==
    \/ WeightAt(i) > WeightAt(j)
    \/ WeightAt(i) = WeightAt(j) /\ i < j

\* pos lists the store positions of the records returned: eligible
\* positions in rank order, and every eligible position left out ranks
\* after all of them.
IsTopRanking(pos) ==
    /\ \A i \in DOMAIN pos : pos[i] \in EligiblePositions
    /\ \A i \in DOMAIN pos : retrieved[i] = expStore[pos[i]]
    /\ \A i, j \in DOMAIN pos : i < j => RanksBefore(pos[i], pos[j])
    /\ \A e \in EligiblePositions \ Range(pos) :
           \A i \in DOMAIN pos : RanksBefore(pos[i], e)

TheThreeRecords ==
    { Experience("e1", "tutorial", 9000, TRUE, 3, IntroOnly, 0),
      Experience("e2", "tutorial", 4000, TRUE, 4, IntroOnly, 3),
      Experience("e3", "tutorial", 9500, TRUE, 1, IntroSetup, 0) }

\* The scenario: the store holds the three tutorial records scored 0.9, 0.4
\* and 0.95, and the query asks for two tutorial records of at least 0.5.
Scenario ==
    /\ epc = "done"
    /\ Len(expStore) = 3 /\ Range(expStore) = TheThreeRecords
    /\ query.schemaType = "tutorial" /\ query.minScore = 5000 /\ query.topK = 2

\* C11: a retrieve returns min(topK, eligible) records, which are the
\* eligible records of highest blended weight in descending weight order,
\* records of equal weight in store scan order; in the scenario it returns
\* exactly the records scored 0.9 and 0.95.
C11_TopKByWeight ==
    epc = "done" =>
        /\ Len(retrieved) <= Max(0, query.topK)
        /\ Len(retrieved) = Min(Max(0, query.topK), Cardinality(EligiblePositions))
        /\ \E pos \in [DOMAIN retrieved -> DOMAIN expStore] : IsTopRanking(pos)
        /\ Scenario =>
               /\ Len(retrieved) = 2
               /\ {retrieved[i].score : i \in DOMAIN retrieved} = {9000, 9500}

\* A retrieve cut the eligible records down to topK = 2, and the two it
\* returned are different records of the same weight.
C11_Witness ==
    /\ epc = "done"
    /\ query.topK = 2 /\ Len(retrieved) = 2
    /\ Cardinality(EligiblePositions) > 2
    /\ retrieved[1].id # retrieved[2].id
    /\ Weight(retrieved[1], query.bow, expNow) = Weight(retrieved[2], query.bow, expNow)

\* The scenario's store has been queried.
C11_ScenarioReached == Scenario /\ Len(retrieved) = 2

\* The age of a record in days when the model's clock reads expNow.
AgeDays(item) == expNow - item.ts

\* The positions of the prior store that the claim says survive a prune.
SurvivorPositions ==
    {i \in DOMAIN expPrior :
        /\ expPrior[i].score >= pruneArgs.threshold
        /\ (pruneArgs.maxAgeDays = 0 \/ AgeDays(expPrior[i]) <= pruneArgs.maxAgeDays)}

\* C12: after a prune the store holds exactly the prior records whose score
\* is at least the threshold and whose age is at most maxAgeDays (any age
\* when maxAgeDays is 0), so no survivor is below the threshold or too old;
\* before counts the records scanned, after the records kept, and removed
\* is their difference.
C12_PruneKeepsExactly ==
    epc = "pruned" =>
        /\ expStore = SelectIdx(expPrior, SurvivorPositions, 1)
        /\ \A i \in DOMAIN expStore :
               /\ expStore[i].score >= pruneArgs.threshold
               /\ pruneArgs.maxAgeDays > 0 =>
                      AgeDays(expStore[i]) <= pruneArgs.maxAgeDays
        /\ pruneCounts.before = Len(expPrior)
        /\ pruneCounts.after = Len(expStore)
        /\ pruneCounts.removed = pruneCounts.before - pruneCounts.after

\* A prune with maxAgeDays 1 has dropped a record for its score and another
\* for its age, and has kept a record that is exactly one day old.
C12_Witness ==
    /\ epc = "pruned"
    /\ pruneArgs.maxAgeDays = 1
    /\ \E i \in DOMAIN expPrior : expPrior[i].score < pruneArgs.threshold
    /\ \E i \in DOMAIN expPrior :
           /\ expPrior[i].score >= pruneArgs.threshold
           /\ AgeDays(expPrior[i]) > 1
    /\ \E i \in DOMAIN expStore : AgeDays(expStore[i]) = 1
    /\ pruneCounts.removed >= 2

-----------------------------------------------------------------------------
(* EXPERIENCE BANK: processes appending to and rewriting one store file     *)
(*                                                                         *)
(* The file at the store path is a sequence of records, one per line.  A   *)
(* process that opened the file keeps its handle on the file it opened: a  *)
(* later os.replace puts another file at the path and leaves the handle on *)
(* the old one (bStale).  The rewrite's temporary file is private to its   *)
(* process, so writing it and replacing the store with it is one step; the *)
(* StoreSpec specification follows that path write by write.               *)

\* A line that does not parse: what a rewrite in place leaves where it has
\* skipped over truncated bytes.
BankHole == Experience("", "", 0, FALSE, 0, IntroOnly, 0)

\* _exp_iter: the lines that parse; a hole and the line it runs into do not.
ParseBank(f) ==
    SelectIdx(f, {i \in DOMAIN f : f[i] # BankHole /\ (i = 1 \/ f[i - 1] # BankHole)}, 1)

\* handle.write(line) at offset off of a file open in mode 'w'.
BankWriteAt(f, off, r) ==
    IF off < Len(f) THEN [f EXCEPT ![off + 1] = r]
    ELSE f \o [i \in 1..(off - Len(f)) |-> BankHole] \o <<r>>

\* The record process p appends: _append_experience gives it a fresh id
\* when it has none, and a usage count of 0.
NewExperience(p) ==
    Experience(IF p = 1 THEN "n1" ELSE "n2", "tutorial", 9000, TRUE, 4, IntroOnly, 0)

\* A bump that counts a use for every record of the store.
BumpUsageCountsAll(store, ids) ==
    [i \in DOMAIN store |-> [store[i] EXCEPT !.usageCount = Max(0, @) + 1]]

\* The items _bump_usage_counts collects: the usage count of every record
\* whose id is in ids goes up by one.
BumpUsageCounts(store, ids) ==
    [i \in DOMAIN store |->
        IF store[i].id \in ids
        THEN [store[i] EXCEPT !.usageCount = Max(0, @) + 1]
        ELSE store[i]]

\* _bump_usage_counts rewrites the store only when a record's id matched.
BumpChanged(store, ids) == \E i \in DOMAIN store : store[i].id \in ids

\* The rewrites of the model: a bump of record e1, a prune at 0.5 with the
\* age test off.
RewriteOps == {"bump", "prune"}

RewriteItems(op, store) ==
    IF op = "bump" THEN BumpUsageCounts(store, {"e1"})
    ELSE PruneExperiences(store, 5000, 0, 4)

\* A replace that also carries over the records appended since the read.
ReplaceContentsWithMissed(p) ==
    bItems[p] \o SelectSeq(bank, LAMBDA r : r \in bMissed[p])

\* What os.replace(tmp, path) puts at the store path: the temporary file,
\* which holds the items computed from the records read earlier.
ReplaceContents(p) == bItems[p]

BankInitialRecords ==
    << Experience("e1", "tutorial", 9000, TRUE, 3, IntroOnly, 0),
       Experience("e2", "tutorial", 4000, TRUE, 4, IntroOnly, 3) >>

\* The states in which a process holds a handle on the store file.
HandleOpen(p) == bpc[p] \in {"a_write", "fb_lock", "fb_write"}

\* The states of a rewrite between its read and its last write.
Rewriting(p) == bpc[p] \in {"rw_tmp", "fb_open", "fb_lock", "fb_write"}

BankFileInit ==
    /\ bank = BankInitialRecords
    /\ bankLock = 0
    /\ bpc = [p \in Procs |-> "idle"]
    /\ bItems = [p \in Procs |-> <<>>]
    /\ bPos = [p \in Procs |-> 0]
    /\ bOff = [p \in Procs |-> 0]
    /\ bStale = [p \in Procs |-> FALSE]
    /\ bMissed = [p \in Procs |-> {}]
    /\ bLost = {}
    /\ appended = {}
    /\ opsBegun = 0

BankFrame ==
    UNCHANGED <<dispVars, cacheVars, storeVars, keyVars, expVars, scoreVars, metricVars, failVars, bumpVars, parseVars, sigVars>>

\* _append_experience, lines 478-488: the record is completed and the file
\* is opened in mode "a".  No lock is asked for.
AppendOpen(p) ==
    /\ bpc[p] = "idle"
    /\ opsBegun < MaxOps
    /\ NewExperience(p) \notin appended
    /\ opsBegun' = opsBegun + 1
    /\ bpc' = [bpc EXCEPT ![p] = "a_write"]
    /\ bStale' = [bStale EXCEPT ![p] = FALSE]
    /\ UNCHANGED <<bank, bankLock, bItems, bPos, bOff, bMissed, bLost, appended>>
    /\ BankFrame

\* _append_experience, lines 488-489: the line is written at the end of the
\* file the handle is on, and the handle is closed.
AppendWrite(p) ==
    /\ bpc[p] = "a_write"
    /\ bank' = IF bStale[p] THEN bank ELSE Append(bank, NewExperience(p))
    /\ appended' = appended \cup {NewExperience(p)}
    /\ bMissed' = [q \in Procs |->
                     IF q # p /\ Rewriting(q) /\ ~bStale[p]
                     THEN bMissed[q] \cup {NewExperience(p)} ELSE bMissed[q]]
    /\ bpc' = [bpc EXCEPT ![p] = "idle"]
    /\ UNCHANGED <<bankLock, bItems, bPos, bOff, bStale, bLost, opsBegun>>
    /\ BankFrame

\* _bump_usage_counts, lines 492-506, and _prune_experiences, lines 509-525:
\* the store is read and the items to write back are computed; a bump that
\* matched no record returns without writing.
RewriteRead(p, op) ==
    /\ bpc[p] = "idle"
    /\ opsBegun < MaxOps
    /\ opsBegun' = opsBegun + 1
    /\ LET store == ParseBank(bank)
       IN  IF op = "bump" /\ ~BumpChanged(store, {"e1"})
           THEN UNCHANGED <<bpc, bItems>>
           ELSE /\ bpc' = [bpc EXCEPT ![p] = "rw_tmp"]
                /\ bItems' = [bItems EXCEPT ![p] = RewriteItems(op, store)]
    /\ bMissed' = [bMissed EXCEPT ![p] = {}]
    /\ UNCHANGED <<bank, bankLock, bPos, bOff, bStale, bLost, appended>>
    /\ BankFrame

\* _write_experiences, lines 396-410: the temporary file is written and put
\* in the store's place; or a step raises and the fallback takes over.
RewriteReplace(p) ==
    /\ bpc[p] = "rw_tmp"
    /\ \/ /\ bank' = ReplaceContents(p)
          /\ bStale' = [q \in Procs |-> IF q # p /\ HandleOpen(q) THEN TRUE ELSE bStale[q]]
          /\ bLost' = bLost \cup bMissed[p]
          /\ bpc' = [bpc EXCEPT ![p] = "idle"]
       \/ /\ bpc' = [bpc EXCEPT ![p] = "fb_open"]
          /\ UNCHANGED <<bank, bStale, bLost>>
    /\ UNCHANGED <<bankLock, bItems, bPos, bOff, bMissed, appended, opsBegun>>
    /\ BankFrame

\* _file_lock_context(path, 'w'), line 195: open(path, 'w') empties the
\* file; or it raises, which the rewrite swallows.
FallbackOpenBank(p) ==
    /\ bpc[p] = "fb_open"
    /\ \/ /\ bank' = <<>>
          /\ bStale' = [bStale EXCEPT ![p] = FALSE]
          /\ bOff' = [bOff EXCEPT ![p] = 0]
          /\ bpc' = [bpc EXCEPT ![p] = "fb_lock"]
       \/ /\ bpc' = [bpc EXCEPT ![p] = "idle"]
          /\ UNCHANGED <<bank, bStale, bOff>>
    /\ UNCHANGED <<bankLock, bItems, bPos, bMissed, bLost, appended, opsBegun>>
    /\ BankFrame

\* _acquire_file_lock, lines 164-173: flock(LOCK_EX) waits until no other
\* handle on the same file holds the lock.
FallbackLockBank(p) ==
    /\ bpc[p] = "fb_lock"
    /\ IF bStale[p] THEN UNCHANGED bankLock
       ELSE bankLock = 0 /\ bankLock' = p
    /\ bpc' = [bpc EXCEPT ![p] = "fb_write"]
    /\ bPos' = [bPos EXCEPT ![p] = 0]
    /\ UNCHANGED <<bank, bItems, bOff, bStale, bMissed, bLost, appended, opsBegun>>
    /\ BankFrame

\* Lines 414-418: one turn of the fallback's loop, writing at the handle's
\* own offset.
FallbackWriteBank(p) ==
    /\ bpc[p] = "fb_write"
    /\ bPos[p] < Len(bItems[p])
    /\ bank' = IF bStale[p] THEN bank
               ELSE BankWriteAt(bank, bOff[p], bItems[p][bPos[p] + 1])
    /\ bPos' = [bPos EXCEPT ![p] = @ + 1]
    /\ bOff' = [bOff EXCEPT ![p] = @ + 1]
    /\ UNCHANGED <<bankLock, bpc, bItems, bStale, bMissed, bLost, appended, opsBegun>>
    /\ BankFrame

\* _file_lock_context's finally, lines 198-205: unlock and close.
FallbackCloseBank(p) ==
    /\ bpc[p] = "fb_write"
    /\ bPos[p] = Len(bItems[p])
    /\ bankLock' = IF bankLock = p THEN 0 ELSE bankLock
    /\ bpc' = [bpc EXCEPT ![p] = "idle"]
    /\ bPos' = [bPos EXCEPT ![p] = 0]
    /\ bOff' = [bOff EXCEPT ![p] = 0]
    /\ bStale' = [bStale EXCEPT ![p] = FALSE]
    /\ UNCHANGED <<bank, bItems, bMissed, bLost, appended, opsBegun>>
    /\ BankFrame

BankNext ==
    \E p \in Procs :
        \/ AppendOpen(p)
        \/ AppendWrite(p)
        \/ \E op \in RewriteOps : RewriteRead(p, op)
        \/ RewriteReplace(p)
        \/ FallbackOpenBank(p)
        \/ FallbackLockBank(p)
        \/ FallbackWriteBank(p)
        \/ FallbackCloseBank(p)

BankInit ==
    DispIdle /\ CacheIdle /\ StoreIdle /\ KeyIdle /\ ExpIdle /\ BankFileInit
        /\ ScoreIdle /\ MetricIdle /\ FailIdle /\ BumpIdle /\ ParseIdle /\ SigIdle

BankSpec == BankInit /\ [][BankNext]_vars

\* ---- claims about the shared Experience Bank ----

\* No rewrite has read the store yet.
OnlyAppends == \A p \in Procs : bItems[p] = <<>>

Occurrences(f, r) == Cardinality({i \in DOMAIN f : f[i] = r})

\* C13 (as claimed): a process writes its appended record while it holds
\* the store's exclusive lock, and when only appends have run every record
\* whose append returned stands in the store whole and exactly once.
C13_AppendsUnderLock ==
    /\ \A p \in Procs : bpc[p] = "a_write" => bankLock = p
    /\ OnlyAppends => \A r \in appended : Occurrences(ParseBank(bank), r) = 1

\* C14: a rewrite that gets to replace the store installs the items it
\* computed from the records it read, so every record appended between its
\* read and its replace is out of the store when the replace is done.
C14_ReplaceDropsMissedAppends ==
    [][\A p \in Procs :
          (bpc[p] = "rw_tmp" /\ bpc'[p] = "idle") =>
              /\ bank' = bItems[p]
              /\ \A r \in bMissed[p] : r \notin Range(bank')]_vars

\* The lost-append race has happened: every process is back from its call,
\* a record whose append returned between another process's read and replace
\* is not in the store.
C14_Witness ==
    /\ \A p \in Procs : bpc[p] = "idle"
    /\ \E r \in bLost : r \in appended /\ r \notin Range(bank)

\* C30 (as claimed): whatever append, bump and prune steps two processes
\* interleave, a record that stays in the store keeps every field but its
\* usage count, and its usage count never goes down.
C30_OnlyUsageGrows ==
    [][LET old == ParseBank(bank)
           new == ParseBank(bank')
       IN  \A i \in DOMAIN old, j \in DOMAIN new :
               old[i].id = new[j].id =>
                   /\ [new[j] EXCEPT !.usageCount = 0] = [old[i] EXCEPT !.usageCount = 0]
                   /\ new[j].usageCount >= old[i].usageCount]_vars

-----------------------------------------------------------------------------
(* SCORER: feature matching on text                                        *)
(*                                                                         *)
(* A text is a sequence of symbols: words, the hyphen "-" and the blank    *)
(* " ".  A checklist is a sequence of feature numbers; FeatureText gives   *)
(* the text of a feature, and 0 is a feature that is blank.                *)

STOPWORDS ==
    { "the", "a", "an", "and", "or", "to", "of", "in", "on", "for", "with", "by",
      "as", "at", "is", "are", "be", "when", "that", "this", "it", "from",
      "should", "must", "may", "can", "will", "if", "then", "into", "over",
      "under", "while", "both", "any", "your", "their", "its", "how" }

\* str.lower() on one symbol, for the symbols of the model's texts.
Lower(w) ==
    CASE w = "Step" -> "step"
      [] w = "To"   -> "to"
      [] w = "Grounding" -> "grounding"
      [] OTHER      -> w

\* text.lower()
LowerText(t) == [i \in DOMAIN t |-> Lower(t[i])]

\* t.replace("step-by-step", "step by step") and t.replace("-", " ")
HyphensToBlanks(t) == [i \in DOMAIN t |-> IF t[i] = "-" THEN " " ELSE t[i]]

\* re.sub(r"\s+", " ", t): a run of blanks becomes one blank.
CollapseBlanks(t) ==
    SelectIdx(t, {i \in DOMAIN t : ~(t[i] = " " /\ i > 1 /\ t[i - 1] = " ")}, 1)

\* t.strip(), for a text without runs of blanks.
Strip(t) ==
    LET first == IF t # <<>> /\ t[1] = " " THEN 2 ELSE 1
        last  == IF t # <<>> /\ t[Len(t)] = " " THEN Len(t) - 1 ELSE Len(t)
    IN  SubSeq(t, first, last)

\* _normalize_for_match
NormalizeForMatch(t) == Strip(CollapseBlanks(HyphensToBlanks(LowerText(t))))

\* needle in hay
Contains(hay, needle) ==
    \E k \in 0..(Len(hay) - Len(needle)) : SubSeq(hay, k + 1, k + Len(needle)) = needle

\* _tokens: the words of the normalized text that are no stopwords and are
\* longer than two characters.
TokensOf(t) ==
    SelectSeq(NormalizeForMatch(t),
              LAMBDA w : w \notin {"-", " "} /\ w \notin STOPWORDS /\ Len(w) > 2)

\* _feature_hit(feature_text, lowered_content, content_tokens_set)
FeatureHitText(feature, loweredContent, contentTokens) ==
    \/ Contains(loweredContent, NormalizeForMatch(feature))
    \/ LET ftoks     == TokensOf(feature)
           overlap   == Cardinality({i \in DOMAIN ftoks : ftoks[i] \in contentTokens})
           threshold == IF Len(ftoks) >= 10 THEN 5 ELSE 6
       IN  ftoks # <<>> /\ 10 * overlap >= threshold * Len(ftoks)

\* The texts of the features 1, 2, 3 and 4.
FeatureText ==
    << <<"to", "-", "do">>,
       <<"Step", " ", "by", " ", "step">>,
       <<"grounding">>,
       <<"timeline", " ", "review">> >>

\* The features of a checklist that hit the content.
HitSet(features, content, contentTokens) ==
    {f \in Range(features) \ {0} : FeatureHitText(FeatureText[f], content, contentTokens)}

\* _build_weights_map without the clamp at 0.
BuildWeightsMapUnclamped(raw) == raw

\* _build_weights_map: a weight below 0 counts as 0.
BuildWeightsMap(raw) == [f \in DOMAIN raw |-> Max(0, raw[f])]

\* The bonus both paths grant: max(0, json_bonus) when the prompt parsed.
EffectiveBonus(parsedOk, jsonBonus) == IF parsedOk THEN Max(0, jsonBonus) ELSE 0

\* _analyze_output: the content is the normalized text.
AnalyzeOutput(text, parsedOk, features, jsonBonus, raw) ==
    LET lowered == NormalizeForMatch(text)
        tokens  == Range(TokensOf(lowered))
    IN  AnalyzeWithBase(HitSet(features, lowered, tokens), features,
                        BuildWeightsMap(raw), EffectiveBonus(parsedOk, jsonBonus))

\* _precompute_prompt_base: the content is the text in lower case.
PrecomputePromptBase(text, parsedOk, jsonBonus) ==
    <<LowerText(text), EffectiveBonus(parsedOk, jsonBonus)>>

\* A worker of _parallel_evaluate_prompt on one checklist: the content is
\* what _precompute_prompt_base made, the tokens are those of that content.
WorkerAnalyze(text, parsedOk, features, jsonBonus, raw) ==
    LET base   == PrecomputePromptBase(text, parsedOk, jsonBonus)
        tokens == Range(TokensOf(base[1]))
    IN  AnalyzeWithBase(HitSet(features, base[1], tokens), features,
                        BuildWeightsMap(raw), base[2])

\* ---- the inputs of the model ----

TextChoices ==
    { <<"keep", " ", "a", " ", "To", "-", "do", " ", "list">>,
      <<"Step", "-", "by", "-", "step", " ", " ", "guide">>,
      <<"must", " ", "emphasize", " ", "Grounding", " ", "in", " ", "the", " ",
        "timeline">>,
      <<>> }

\* Weight overrides for the features 1..Len: none, a negative and a large
\* one, and zeros only.
RawWeightChoices == { <<>>, <<-2, 3>>, <<0, 0, 0, 0>>, <<1, 1, 2>> }

JsonBonusChoices == {-1000, 0, 2500, 12000}

NoResult == [score |-> 0, coverage |-> 0, satisfied |-> <<>>, missing |-> <<>>,
             satisfiedCount |-> 0]

ScoreInputInit ==
    /\ sFeatures \in SeqsUpTo(0..Len(FeatureText), MaxFeatures)
    /\ sText \in TextChoices
    /\ sParsed \in BOOLEAN
    /\ sRawWeights \in RawWeightChoices
    /\ sJsonBonus \in JsonBonusChoices
    /\ scoreResult = NoResult
    /\ workerResult = NoResult
    /\ scored = {}

ScoreFrame ==
    UNCHANGED <<sFeatures, sText, sParsed, sRawWeights, sJsonBonus, dispVars,
                cacheVars, storeVars, keyVars, expVars, bankVars, metricVars, failVars, bumpVars, parseVars, sigVars>>

\* score: one call of _analyze_output on the inputs.
ScoreCall ==
    /\ "score" \notin scored
    /\ scoreResult' = AnalyzeOutput(sText, sParsed, sFeatures, sJsonBonus, sRawWeights)
    /\ scored' = scored \cup {"score"}
    /\ UNCHANGED workerResult
    /\ ScoreFrame

\* evaluateAll: one worker scoring the same inputs.
WorkerCall ==
    /\ "worker" \notin scored
    /\ workerResult' = WorkerAnalyze(sText, sParsed, sFeatures, sJsonBonus, sRawWeights)
    /\ scored' = scored \cup {"worker"}
    /\ UNCHANGED scoreResult
    /\ ScoreFrame

ScoreNext == ScoreCall \/ WorkerCall

ScoreInit ==
    DispIdle /\ CacheIdle /\ StoreIdle /\ KeyIdle /\ ExpIdle /\ BankIdle
        /\ MetricIdle /\ FailIdle /\ BumpIdle /\ ParseIdle /\ SigIdle /\ ScoreInputInit

ScoreSpec == ScoreInit /\ [][ScoreNext]_vars

\* ---- claims about the scorer ----

ResultOf(call) == IF call = "score" THEN scoreResult ELSE workerResult

\* The weight the checklist gives a feature: its override, never below 0,
\* or 1 without an override.
ClaimedWeight(f) ==
    IF f \in DOMAIN sRawWeights THEN Max(0, sRawWeights[f]) ELSE 1

RECURSIVE ClaimedSum(_)
ClaimedSum(fs) ==
    IF fs = <<>> THEN 0 ELSE ClaimedWeight(Head(fs)) + ClaimedSum(Tail(fs))

Abs(x) == IF x < 0 THEN -x ELSE x

\* c is the quotient hit / total to four decimals.
IsRoundedQuotient(c, hit, total) == 2 * Abs(c * total - hit * ScoreScale) <= total

C16_LiteralFeatureSatisfied ==
    \A call \in scored :
        \A f \in Range(sFeatures) \ {0} :
            Contains(NormalizeForMatch(sText), NormalizeForMatch(FeatureText[f]))
                => f \in Range(ResultOf(call).satisfied)

\* C35 (as claimed): for the same text, checklist, weights and bonus, the
\* result a worker of evaluateAll returns equals the result of the scorer.
C35_WorkerEqualsScorer ==
    scored = {"score", "worker"} => workerResult = scoreResult


-----------------------------------------------------------------------------
(* SNAPSHOT PERSISTER                                                      *)
(*                                                                         *)
(* The metric closure of _prepare_metric (onSample), the final evaluation  *)
(* of run, and run's termination-signal handler with _cleanup_resources.   *)
(* Scores and coverages are in 1/10000 units, as the snapshots carry them  *)
(* (round(x, 4)).  A snapshot is modelled by its ts, iteration, rawScore,  *)
(* coverage, reason and signal entries; a reason is the sequence of its    *)
(* "|"-separated tags.                                                      *)

MaxSamples  == 5
MaxChildren == 2

AutosaveInterval   == 5
EarlyStopThreshold == 10

Children == 1 .. MaxChildren

\* emergency_state = {"bestSnapshot": None}
NoSnapshot == <<>>

\* (rawScore, coverage) of the samples the optimizer hands to the metric.
SampleChoices == {<<3000, 3000>>, <<6000, 3500>>, <<10000, 10000>>}

\* (rawScore, coverage) of the final prediction
FinalChoices == {<<3000, 3000>>, <<10000, 10000>>}

\* SIGTERM
SignalChoices == {15}

Snapshot(ts, iteration, raw, coverage, why) ==
    [ts |-> ts, iteration |-> iteration, rawScore |-> raw, coverage |-> coverage,
     reason |-> <<why>>, signal |-> 0]

\* (str(reason or "") + "|" + tag).strip("|")
Tagged(reason, tag) == Append(reason, tag)

SecondarySaveDueStrongOnly(rawImproved, coverage) == rawImproved /\ coverage >= 8000

\* `if raw_improved:` in front of the secondary save
SecondarySaveDue(rawImproved, coverage) == rawImproved

SignalReasonUntagged(reason) == reason

\* meta["reason"] of the handler
SignalReason(reason) == Tagged(reason, "signal")

RawImprovedOrTied(raw, best) == raw >= best

\* raw_improved = raw_score > prev_raw_best
RawImproved(raw, best) == raw > best

StrongSampleAnyScore(raw, coverage, best) == coverage >= 8000

\* if coverage >= 0.8 and raw_score >= best_tracker.get("raw", 0.0), read
\* after the tracker's update
StrongSample(raw, coverage, best) == coverage >= 8000 /\ raw >= best

AutosaveDueEarly(it, last, interval) == interval > 0 /\ it - last >= interval - 1

\* autosave_interval > 0 and (globalIteration - last_autosave_iter) >= autosave_interval
AutosaveDue(it, last, interval) == interval > 0 /\ it - last >= interval

\* _append_best_prompt(path, item): one more line at the end of the file
AppendBestPrompt(store, item) == Append(store, item)

\* run, once the handlers are installed and the flags are built.
MetricStart ==
    /\ mpc = "optimizing" /\ bestRaw = 0 /\ globalIteration = 0
    /\ lastAutosaveIter = 0 /\ perfectStreak = 0 /\ earlyStop = FALSE
    /\ bestSnapshot = NoSnapshot
    /\ emergencyStore = <<>> /\ bestPrompts = <<>> /\ metricReturn = 0
    /\ mNow = 0 /\ children = [w \in Children |-> "none"]
    /\ signum = 0 /\ exitCode = 0
    /\ sampleLog = <<>> /\ bestIteration = 0

MetricFrame ==
    UNCHANGED <<dispVars, cacheVars, storeVars, keyVars, expVars, bankVars,
                scoreVars, failVars, bumpVars, parseVars, sigVars>>

\* onSample: one call of the metric closure, in a run of at most `limit` calls.
OnSampleUpTo(raw, coverage, limit) ==
    /\ mpc = "optimizing"
    /\ globalIteration < limit
    /\ LET it          == globalIteration + 1
           now         == mNow + 1
           rawImproved == RawImproved(raw, bestRaw)
           best1       == IF rawImproved THEN raw ELSE bestRaw
           snap1       == IF rawImproved
                          THEN Snapshot(now, it, raw, coverage, "rawImprovedAnyCoverage")
                          ELSE bestSnapshot
           streak      == IF coverage >= 9999 THEN perfectStreak + 1 ELSE 0
           strong      == StrongSample(raw, coverage, best1)
           snapshot    == Snapshot(now, it, raw, coverage, "coverageThreshold")
           snap2       == IF strong THEN snapshot ELSE snap1
           store1      == IF SecondarySaveDue(rawImproved, coverage)
                          THEN AppendBestPrompt(emergencyStore,
                                   Snapshot(now, it, raw, coverage, "rawImprovedAnyCoverage"))
                          ELSE emergencyStore
           autosave    == AutosaveDue(it, lastAutosaveIter, AutosaveInterval)
           periodic    == [snap2 EXCEPT !.ts = now,
                                        !.reason = Tagged(@, "periodicAutosave")]
       IN  /\ globalIteration' = it
           /\ mNow' = now
           /\ bestRaw' = best1
           /\ bestIteration' = IF rawImproved THEN it ELSE bestIteration
           /\ perfectStreak' = streak
           /\ bestPrompts' = IF strong THEN AppendBestPrompt(bestPrompts, snapshot)
                             ELSE bestPrompts
           /\ bestSnapshot' = snap2
           /\ emergencyStore' = IF autosave /\ snap2 # NoSnapshot
                                THEN AppendBestPrompt(store1, periodic)
                                ELSE store1
           /\ lastAutosaveIter' = IF autosave THEN it ELSE lastAutosaveIter
           /\ earlyStop' = (earlyStop \/ streak >= EarlyStopThreshold)
           /\ metricReturn' = raw
           /\ sampleLog' = Append(sampleLog, <<raw, coverage>>)
    /\ UNCHANGED <<mpc, children, signum, exitCode>>
    /\ MetricFrame

OnSample(raw, coverage) == OnSampleUpTo(raw, coverage, MaxSamples)

\* run after the stages: the final evaluation replaces the snapshot in memory.
FinalEvaluation(raw, coverage) ==
    /\ mpc = "optimizing"
    /\ mpc' = "evaluated"
    /\ mNow' = mNow + 1
    /\ bestSnapshot' = Snapshot(mNow + 1, globalIteration, raw, coverage,
                                "finalEvaluation")
    /\ UNCHANGED <<bestRaw, globalIteration, lastAutosaveIter, perfectStreak,
                   earlyStop, emergencyStore, bestPrompts, metricReturn, children,
                   signum, exitCode, sampleLog, bestIteration>>
    /\ MetricFrame

\* The optional parallel evaluation starts worker processes ...
PoolStart(ws) ==
    /\ mpc = "evaluated"
    /\ \A w \in Children : children[w] = "none"
    /\ children' = [w \in Children |-> IF w \in ws THEN "alive" ELSE "none"]
    /\ UNCHANGED <<mpc, bestRaw, globalIteration, lastAutosaveIter, perfectStreak,
                   earlyStop, bestSnapshot, emergencyStore, bestPrompts,
                   metricReturn, mNow, signum, exitCode, sampleLog, bestIteration>>
    /\ MetricFrame

\* ... and closes and joins them when it is done.
PoolEnd ==
    /\ mpc = "evaluated"
    /\ \E w \in Children : children[w] = "alive"
    /\ children' = [w \in Children |->
                       IF children[w] = "alive" THEN "closed" ELSE children[w]]
    /\ UNCHANGED <<mpc, bestRaw, globalIteration, lastAutosaveIter, perfectStreak,
                   earlyStop, bestSnapshot, emergencyStore, bestPrompts,
                   metricReturn, mNow, signum, exitCode, sampleLog, bestIteration>>
    /\ MetricFrame

HandlerFrame ==
    /\ UNCHANGED <<bestRaw, globalIteration, lastAutosaveIter, perfectStreak,
                   earlyStop, bestSnapshot, bestPrompts, metricReturn, sampleLog, bestIteration>>
    /\ MetricFrame

\* A termination signal is delivered: _emergency_signal_handler starts.
Signal(s) ==
    /\ mpc \in {"optimizing", "evaluated"}
    /\ mpc' = "sig_save"
    /\ signum' = s
    /\ mNow' = mNow + 1
    /\ UNCHANGED <<emergencyStore, children, exitCode>>
    /\ HandlerFrame

\* if snap: ... _append_best_prompt(emergency_best_path, meta)
HandlerSave ==
    /\ mpc = "sig_save"
    /\ mpc' = "sig_terminate"
    /\ emergencyStore' =
           IF bestSnapshot # NoSnapshot
           THEN AppendBestPrompt(emergencyStore,
                    [bestSnapshot EXCEPT !.ts = mNow, !.signal = signum,
                                         !.reason = SignalReason(@)])
           ELSE emergencyStore
    /\ UNCHANGED <<mNow, children, signum, exitCode>>
    /\ HandlerFrame

\* _cleanup_resources: children = mp.active_children(); proc.terminate()
HandlerTerminate ==
    /\ mpc = "sig_terminate"
    /\ IF \E w \in Children : children[w] = "alive"
       THEN /\ children' = [w \in Children |->
                               IF children[w] = "alive" THEN "terminating"
                               ELSE children[w]]
            /\ mpc' = "sig_grace"
       ELSE /\ children' = children
            /\ mpc' = "sig_exit"
    /\ UNCHANGED <<mNow, emergencyStore, signum, exitCode>>
    /\ HandlerFrame

\* time.sleep(0.1): the children in ws end within the grace wait.
HandlerGrace(ws) ==
    /\ mpc = "sig_grace"
    /\ mpc' = "sig_kill"
    /\ children' = [w \in Children |->
                       IF children[w] = "terminating" /\ w \in ws THEN "ended"
                       ELSE children[w]]
    /\ UNCHANGED <<mNow, emergencyStore, signum, exitCode>>
    /\ HandlerFrame

\* if proc.is_alive(): proc.kill()
HandlerKill ==
    /\ mpc = "sig_kill"
    /\ mpc' = "sig_join"
    /\ children' = [w \in Children |->
                       IF children[w] = "terminating" THEN "killed"
                       ELSE children[w]]
    /\ UNCHANGED <<mNow, emergencyStore, signum, exitCode>>
    /\ HandlerFrame

\* proc.join(timeout=1.0)
HandlerJoin ==
    /\ mpc = "sig_join"
    /\ mpc' = "sig_exit"
    /\ children' = [w \in Children |->
                       IF children[w] \in {"ended", "killed"} THEN "joined"
                       ELSE children[w]]
    /\ UNCHANGED <<mNow, emergencyStore, signum, exitCode>>
    /\ HandlerFrame

\* sys.exit(2)
HandlerExit ==
    /\ mpc = "sig_exit"
    /\ mpc' = "exited"
    /\ exitCode' = 2
    /\ UNCHANGED <<mNow, emergencyStore, children, signum>>
    /\ HandlerFrame

HandlerStep ==
    \/ HandlerSave
    \/ HandlerTerminate
    \/ \E ws \in SUBSET Children : HandlerGrace(ws)
    \/ HandlerKill
    \/ HandlerJoin
    \/ HandlerExit

MetricNext ==
    \/ \E sample \in SampleChoices : OnSample(sample[1], sample[2])
    \/ \E sample \in FinalChoices : FinalEvaluation(sample[1], sample[2])
    \/ \E ws \in SUBSET Children \ {{}} : PoolStart(ws)
    \/ PoolEnd
    \/ \E s \in SignalChoices : Signal(s)
    \/ HandlerStep

MetricInit ==
    DispIdle /\ CacheIdle /\ StoreIdle /\ KeyIdle /\ ExpIdle /\ BankIdle
        /\ ScoreIdle /\ FailIdle /\ BumpIdle /\ ParseIdle /\ SigIdle /\ MetricStart

MetricSpec == MetricInit /\ [][MetricNext]_vars

\* The handler runs in the main thread as soon as the signal is delivered and
\* none of its steps waits for another process.
MetricLiveSpec == MetricSpec /\ WF_vars(HandlerStep)


-----------------------------------------------------------------------------
(* SNAPSHOT PERSISTER: CLAIMS                                              *)

\* The running best before sample i, from the samples alone.
RunningBest(k) ==
    LET seen == {0} \cup {sampleLog[j][1] : j \in 1 .. k}
    IN  CHOOSE m \in seen : \A x \in seen : x <= m

Improving(i) == sampleLog[i][1] > RunningBest(i - 1)

\* The any-improvement snapshots the emergency store holds for sample i.
AnyImprovementAt(i) ==
    {k \in DOMAIN emergencyStore :
        /\ emergencyStore[k].reason = <<"rawImprovedAnyCoverage">>
        /\ emergencyStore[k].iteration = i}

\* C17: after every onSample call, each sample whose rawScore exceeded the
\* running best (initially 0) has exactly one any-improvement snapshot in the
\* emergency store, carrying its rawScore and coverage whatever the coverage
\* is, and no other sample has one; so once a sample has improved, the store
\* holds a snapshot whose rawScore is the current bestRaw.
C17_EveryImprovementSaved ==
    /\ bestRaw = RunningBest(Len(sampleLog))
    /\ \A i \in DOMAIN sampleLog :
           IF Improving(i)
           THEN /\ Cardinality(AnyImprovementAt(i)) = 1
                /\ \A k \in AnyImprovementAt(i) :
                       /\ emergencyStore[k].rawScore = sampleLog[i][1]
                       /\ emergencyStore[k].coverage = sampleLog[i][2]
           ELSE AnyImprovementAt(i) = {}
    /\ bestRaw > 0 =>
           \E k \in DOMAIN emergencyStore :
               /\ emergencyStore[k].reason = <<"rawImprovedAnyCoverage">>
               /\ emergencyStore[k].rawScore = bestRaw

\* Five samples: the first improves with coverage below 0.8, a later one does
\* not improve, a later one improves again; the periodic autosave has run.
C17_Witness ==
    /\ Len(sampleLog) = 5
    /\ Improving(1) /\ sampleLog[1][2] < 8000
    /\ \E i \in 2 .. 4 : ~Improving(i) /\ \E j \in (i + 1) .. 5 : Improving(j)
    /\ \E k \in DOMAIN emergencyStore :
           emergencyStore[k].reason[Len(emergencyStore[k].reason)] = "periodicAutosave"
    /\ metricReturn = sampleLog[5][1]

\* The lines the handler wrote.
SignalRecords ==
    {k \in DOMAIN emergencyStore : emergencyStore[k].signal # 0}

\* The handler has begun to release resources, or the process has exited.
ReleaseBegun ==
    \/ \E w \in Children : children[w] \in {"terminating", "ended", "killed", "joined"}
    \/ exitCode # 0

C18_WitnessNoSnapshot ==
    /\ exitCode = 2
    /\ bestSnapshot = NoSnapshot
    /\ emergencyStore = <<>>

\* C36 (as claimed): once a sample has improved on 0, the snapshot in memory
\* (the one the autosave and the signal handler write) has the running
\* bestRaw as its rawScore, in every later state of the run, the final
\* evaluation included.
C36_SnapshotKeepsBest ==
    bestRaw > 0 => (bestSnapshot # NoSnapshot /\ bestSnapshot.rawScore = bestRaw)

\* The same up to the final evaluation.
SnapshotKeepsBestWhileOptimizing ==
    (bestRaw > 0 /\ mpc = "optimizing") =>
        (bestSnapshot # NoSnapshot /\ bestSnapshot.rawScore = bestRaw)


-----------------------------------------------------------------------------
(* FAILING STORE WRITES                                                    *)
(*                                                                         *)
(* One run, and the metric calls inside it, with file-system calls that    *)
(* may fail.  Each write site is given the set of its primitive calls that *)
(* raise OSError this time; the model follows the exception through the    *)
(* try blocks of the write function and of its call site.                  *)

\* os.makedirs, open(tmp, "w"), handle.write, os.replace, open(path, "w"),
\* open(path, "a")
Faults == {"mkdir", "opentmp", "write", "replace", "opentarget", "openappend"}

FaultChoices == SUBSET Faults

MakedirsRaisesAlways(dirThere, F) == "mkdir" \in F

\* os.makedirs(directory, exist_ok=True): an OSError of mkdir is passed on
\* only when the directory is not there.
MakedirsRaises(dirThere, F) == "mkdir" \in F /\ ~dirThere

DirAfter(dirThere, F) == dirThere \/ "mkdir" \notin F

\* with _file_lock_context(path, mode) as (handle, locked): write the items.
\* What the block leaves: <<an exception left it, how much was stored>>.
LockedWrite(dirThere, F, openFault) ==
    IF MakedirsRaises(dirThere, F) \/ openFault \in F THEN <<TRUE, "none">>
    ELSE IF "write" \in F THEN <<FALSE, "partial">>
    ELSE <<FALSE, "all">>

\* _cache_write_all and _write_experiences: <<raised, stored>>.
RewriteUnder(dirThere, F) ==
    IF MakedirsRaises(dirThere, F) THEN <<TRUE, "none">>
    ELSE IF "opentmp" \in F \/ "replace" \in F
         THEN <<FALSE, LockedWrite(TRUE, F, "opentarget")[2]>>
    ELSE IF "write" \in F THEN <<FALSE, "partial">>
    ELSE <<FALSE, "all">>

CacheWriteAllUnder(dirThere, F) == RewriteUnder(dirThere, F)

WriteExperiencesUnder(dirThere, F) == RewriteUnder(dirThere, F)

\* _append_experience: nothing is caught.
AppendExperienceUnder(dirThere, F) ==
    IF MakedirsRaises(dirThere, F) \/ "openappend" \in F \/ "write" \in F
    THEN <<TRUE, "none">>
    ELSE <<FALSE, "all">>

\* _append_best_prompt: the locked append, then the plain append, both caught.
AppendBestPromptUnder(dirThere, F) ==
    LET locked == LockedWrite(dirThere, F, "openappend")
    IN  IF locked[1]
        THEN <<FALSE, IF ~DirAfter(dirThere, F) \/ "openappend" \in F THEN "none"
                      ELSE IF "write" \in F THEN "none" ELSE "all">>
        ELSE <<FALSE, IF locked[2] = "all" THEN "all" ELSE "none">>

\* A call inside `try: ... except Exception: pass`.
Swallowed(result) == <<FALSE, result[2]>>

FailStart ==
    /\ fpc = "bootstrap" /\ fOutcome = "none"
    /\ cacheDirThere \in BOOLEAN
    /\ cacheHit \in BOOLEAN
    /\ cacheHit => cacheDirThere
    /\ expFileThere \in BOOLEAN
    /\ saveOk \in BOOLEAN
    /\ fFailed = {} /\ fStored = {} /\ fSamples = 0 /\ fLastRaw = 0
    /\ fMetricReturn = 0

FailFrame ==
    UNCHANGED <<dispVars, cacheVars, storeVars, keyVars, expVars, bankVars,
                scoreVars, metricVars, bumpVars, parseVars, sigVars>>

\* The write at `site` ended as `result`: record it.
Noted(site, result) ==
    /\ fFailed' = IF result[2] = "all" THEN fFailed ELSE fFailed \cup {site}
    /\ fStored' = IF result[2] = "all" THEN fStored \cup {site} ELSE fStored

\* Cache bootstrap: os.makedirs of the cache directory, caught.
RunBootstrap(F) ==
    /\ fpc = "bootstrap"
    /\ cacheDirThere' = DirAfter(cacheDirThere, F)
    /\ fpc' = "lookup"
    /\ UNCHANGED <<fOutcome, cacheHit, expFileThere, saveOk, fFailed, fStored,
                   fSamples, fLastRaw, fMetricReturn>>
    /\ FailFrame

\* Cache hit: _cache_write_all(cache_path, cache_items), then return.
RunHit(F) ==
    /\ fpc = "lookup" /\ cacheHit
    /\ LET w == CacheWriteAllUnder(cacheDirThere, F)
       IN  /\ fOutcome' = IF w[1] THEN "raised" ELSE "cached"
           /\ Noted("hit", w)
    /\ fpc' = "done"
    /\ UNCHANGED <<cacheDirThere, cacheHit, expFileThere, saveOk, fSamples,
                   fLastRaw, fMetricReturn>>
    /\ FailFrame

ProceedsAfterLookupAlways(hit) == TRUE

\* `if hit_index >= 0: ... return cached_result`: run goes on past the lookup
\* only without a hit.
ProceedsAfterLookup(hit) == ~hit

\* No hit: bump the usage counts of the retrieved records, inside a try.
RunBump(F) ==
    /\ fpc = "lookup" /\ ProceedsAfterLookup(cacheHit)
    /\ IF expFileThere
       THEN Noted("bump", Swallowed(WriteExperiencesUnder(TRUE, F)))
       ELSE UNCHANGED <<fFailed, fStored>>
    /\ fpc' = "optimize"
    /\ UNCHANGED <<fOutcome, cacheDirThere, cacheHit, expFileThere, saveOk,
                   fSamples, fLastRaw, fMetricReturn>>
    /\ FailFrame

\* A metric call whose sample improves: the snapshot appends, inside a try.
FailingSample(raw, dirThere, F) ==
    /\ fpc = "optimize"
    /\ fSamples < MaxSamples
    /\ fSamples' = fSamples + 1
    /\ fLastRaw' = raw
    /\ LET a == Swallowed(AppendBestPromptUnder(dirThere, F))
       IN  /\ Noted("snapshot", a)
           /\ fMetricReturn' = IF a[1] THEN -1 ELSE raw
    /\ UNCHANGED <<fpc, fOutcome, cacheDirThere, cacheHit, expFileThere, saveOk>>
    /\ FailFrame

\* Save the experience and prune the store, inside one try.
RunSaveAndPrune(F, G) ==
    /\ fpc = "optimize"
    /\ LET a == AppendExperienceUnder(expFileThere, F)
           p == WriteExperiencesUnder(TRUE, G)
       IN  IF saveOk
           THEN IF a[1]
                THEN /\ Noted("append", a)
                     /\ UNCHANGED expFileThere
                ELSE /\ expFileThere' = TRUE
                     /\ fFailed' = IF p[2] = "all" THEN fFailed
                                   ELSE fFailed \cup {"prune"}
                     /\ fStored' = IF p[2] = "all"
                                   THEN fStored \cup {"append", "prune"}
                                   ELSE fStored \cup {"append"}
           ELSE /\ UNCHANGED expFileThere
                /\ IF expFileThere THEN Noted("prune", Swallowed(p))
                   ELSE UNCHANGED <<fFailed, fStored>>
    /\ fpc' = "upsert"
    /\ UNCHANGED <<fOutcome, cacheDirThere, cacheHit, saveOk, fSamples, fLastRaw,
                   fMetricReturn>>
    /\ FailFrame

\* Write to cache, inside a try; then return the result.
RunUpsertUnder(F) ==
    /\ fpc = "upsert"
    /\ LET w == Swallowed(CacheWriteAllUnder(cacheDirThere, F))
       IN  /\ fOutcome' = IF w[1] THEN "raised" ELSE "computed"
           /\ Noted("upsert", w)
    /\ cacheDirThere' = DirAfter(cacheDirThere, F)
    /\ fpc' = "done"
    /\ UNCHANGED <<cacheHit, expFileThere, saveOk, fSamples, fLastRaw,
                   fMetricReturn>>
    /\ FailFrame

FailNext ==
    \/ \E F \in FaultChoices : RunBootstrap(F)
    \/ \E F \in FaultChoices : RunHit(F)
    \/ \E F \in FaultChoices : RunBump(F)
    \/ \E F \in FaultChoices, raw \in {3000, 6000}, dirThere \in BOOLEAN :
           FailingSample(raw, dirThere, F)
    \/ \E F \in FaultChoices, G \in FaultChoices : RunSaveAndPrune(F, G)
    \/ \E F \in FaultChoices : RunUpsertUnder(F)

FailInit ==
    DispIdle /\ CacheIdle /\ StoreIdle /\ KeyIdle /\ ExpIdle /\ BankIdle
        /\ ScoreIdle /\ MetricIdle /\ BumpIdle /\ ParseIdle /\ SigIdle /\ FailStart

FailSpec == FailInit /\ [][FailNext]_vars

C19_WitnessHit ==
    /\ fpc = "done" /\ fOutcome = "cached" /\ "hit" \in fFailed

\* The stores other than the cache that run has tried to write.
OtherStoresTouched == (fStored \cup fFailed) \ {"hit", "upsert"}

\* C38: a run that finds its key in the cache makes no metric call and tries
\* no write to the Experience Bank (bump, append, prune), the best-prompts
\* store or the emergency store; the cache rewrite of the hit is its only
\* write, and it ends there.
C38_HitWritesCacheOnly ==
    cacheHit =>
        /\ OtherStoresTouched = {}
        /\ "upsert" \notin fStored \cup fFailed
        /\ fSamples = 0
        /\ fpc \in {"bootstrap", "lookup", "done"}
        /\ fpc = "done" => fOutcome \in {"cached", "raised"}

\* A hit has been served with an experience file in place: the cache was
\* rewritten and nothing else.
C38_Witness ==
    /\ cacheHit /\ expFileThere /\ saveOk
    /\ fpc = "done" /\ fOutcome = "cached"
    /\ fStored = {"hit"} /\ fFailed = {}


-----------------------------------------------------------------------------
(* USAGE BUMP: ONE CALL OF _bump_usage_counts                              *)
(*                                                                         *)
(* A call reads the store, adds one to the usage count of the records      *)
(* whose id it was given, and hands the whole list to _write_experiences.  *)
(* The stores it starts from are stores the program wrote: every record    *)
(* has an id and a usage count that appends (0) and bumps (+1) produced.   *)

\* Largest usage count of a record in the store a call starts from.
MaxUsage == 2

\* The id lists a call is given: none, one id, an id listed twice, two ids
\* of which one is listed twice, an id no record has, an empty id.
BumpIdLists ==
    {<<>>, <<"e1">>, <<"e1", "e1">>, <<"e2", "e1", "e2">>, <<"zz">>, <<"">>}

\* Line 495: idset = set(i for i in ids if i).
IdSet(ids) == {ids[k] : k \in DOMAIN ids} \ {""}

StoredExperience(id, usage) ==
    Experience(id, "tutorial", 9000, TRUE, 3, IntroOnly, usage)

BumpStores ==
    {<<>>}
      \cup {<<StoredExperience("e1", u)>> : u \in 0..MaxUsage}
      \cup {<<StoredExperience("e1", u), StoredExperience("e2", v)>> :
                u \in 0..MaxUsage, v \in 0..MaxUsage}

BumpStart ==
    /\ bank \in BumpStores
    /\ bankLock = 0
    /\ bpc = [p \in Procs |-> "idle"]
    /\ bItems = [p \in Procs |-> <<>>]
    /\ bPos = [p \in Procs |-> 0]
    /\ bOff = [p \in Procs |-> 0]
    /\ bStale = [p \in Procs |-> FALSE]
    /\ bMissed = [p \in Procs |-> {}]
    /\ bLost = {}
    /\ appended = {}
    /\ opsBegun = 0
    /\ bCall = [p \in Procs |-> <<>>]

BumpFrame ==
    UNCHANGED <<dispVars, cacheVars, storeVars, keyVars, expVars, scoreVars,
                metricVars, failVars, parseVars, sigVars>>

\* _bump_usage_counts, lines 492-506: no ids, or no record with one of the
\* ids, and the call returns; otherwise the items go to _write_experiences.
BumpRead(p, ids) ==
    /\ bpc[p] = "idle"
    /\ opsBegun < MaxOps
    /\ opsBegun' = opsBegun + 1
    /\ LET store == ParseBank(bank)
       IN  /\ bCall' = [bCall EXCEPT ![p] = <<ids, store>>]
           /\ IF IdSet(ids) = {} \/ ~BumpChanged(store, IdSet(ids))
              THEN UNCHANGED <<bpc, bItems>>
              ELSE /\ bpc' = [bpc EXCEPT ![p] = "rw_tmp"]
                   /\ bItems' = [bItems EXCEPT ![p] = BumpUsageCounts(store, IdSet(ids))]
    /\ bMissed' = [bMissed EXCEPT ![p] = {}]
    /\ UNCHANGED <<bank, bankLock, bPos, bOff, bStale, bLost, appended>>
    /\ BumpFrame

BumpNext ==
    \E p \in Procs :
        \/ \E ids \in BumpIdLists : BumpRead(p, ids)
        \/ RewriteReplace(p)
        \/ FallbackOpenBank(p)
        \/ FallbackLockBank(p)
        \/ FallbackWriteBank(p)
        \/ FallbackCloseBank(p)

BumpInit ==
    DispIdle /\ CacheIdle /\ StoreIdle /\ KeyIdle /\ ExpIdle /\ ScoreIdle
        /\ MetricIdle /\ FailIdle /\ ParseIdle /\ SigIdle /\ BumpStart

BumpSpec == BumpInit /\ [][BumpNext]_vars

\* ---- claims about the usage bump ----

\* The id is one of those the call was given.
Listed(id, ids) == \E k \in DOMAIN ids : ids[k] = id

\* What the claim says the call writes back, from the records it read.
BumpedAsClaimed(store, ids) ==
    [i \in DOMAIN store |->
        IF Listed(store[i].id, ids)
        THEN [store[i] EXCEPT !.usageCount = store[i].usageCount + 1]
        ELSE store[i]]

\* C29: a bump adds exactly one to the usage count of every stored record
\* whose id it was given, however often the id is listed, and leaves every
\* other record and every other field as it read them; the replace puts
\* exactly these items in the store; a call that matched no record leaves
\* the store as it is and does not go on to a rewrite.
C29_BumpAddsOneToMatches ==
    /\ [](\A p \in Procs :
              bpc[p] = "rw_tmp" =>
                  /\ \E i \in DOMAIN bCall[p][2] : Listed(bCall[p][2][i].id, bCall[p][1])
                  /\ bItems[p] = BumpedAsClaimed(bCall[p][2], bCall[p][1]))
    /\ [][\A p \in Procs :
              /\ (/\ bCall'[p] # bCall[p]
                  /\ ~\E i \in DOMAIN bCall'[p][2] :
                          Listed(bCall'[p][2][i].id, bCall'[p][1]))
                      => (bpc'[p] = "idle" /\ bank' = bank)
              /\ (bpc[p] = "rw_tmp" /\ bpc'[p] = "idle") => bank' = bItems[p]]_vars

\* A call given the id of a stored record twice has replaced the store, and
\* the record's usage count is one above the count the call read.
C29_Witness ==
    \E p \in Procs :
        /\ bpc[p] = "idle" /\ bCall[p] # <<>>
        /\ bank = bItems[p]
        /\ \E i \in DOMAIN bank :
              /\ Cardinality({k \in DOMAIN bCall[p][1] : bCall[p][1][k] = bank[i].id}) = 2
              /\ bank[i].usageCount = bCall[p][2][i].usageCount + 1
        /\ \E i \in DOMAIN bank : bank[i] = bCall[p][2][i]

\* A call whose ids no stored record has came back, the store untouched.
C29_WitnessNoMatch ==
    /\ opsBegun = 1
    /\ \E p \in Procs :
          /\ bpc[p] = "idle" /\ bCall[p] # <<>>
          /\ bCall[p][1] = <<"zz">>
          /\ bCall[p][2] # <<>>
          /\ bank = bCall[p][2]

-----------------------------------------------------------------------------
(* SNAPSHOT PERSISTER: A LONG RUN OF SAMPLES                               *)
(*                                                                         *)
(* The metric closure alone, over a run long enough for the periodic       *)
(* autosave to come round twice: no signal, no final evaluation yet.       *)

\* Largest number of metric calls in the long run.
MaxLongRun == 10

\* (rawScore, coverage) of the samples of the long run: a sample that scores
\* nothing, a strong sample, and a higher-scoring sample of low coverage.
LongRunSamples == {<<0, 0>>, <<6000, 8500>>, <<9000, 3000>>}

SampleNext ==
    \E sample \in LongRunSamples : OnSampleUpTo(sample[1], sample[2], MaxLongRun)

SampleSpec == MetricInit /\ [][SampleNext]_vars

\* ---- claims about the samples of a run ----

\* The step is a metric call.
Sampled == Len(sampleLog') = Len(sampleLog) + 1

LastRaw == sampleLog'[Len(sampleLog')][1]

LastCoverage == sampleLog'[Len(sampleLog')][2]

\* The iteration of the first sample whose rawScore is the running best, 0
\* when no sample scored above 0.
FirstAtBest ==
    LET top   == RunningBest(Len(sampleLog))
        first == {i \in DOMAIN sampleLog :
                     /\ sampleLog[i][1] = top
                     /\ \A j \in 1 .. (i - 1) : sampleLog[j][1] < top}
    IN  IF top = 0 THEN 0 ELSE CHOOSE i \in first : TRUE

\* C31: bestRaw is the maximum of 0 and the rawScores seen and bestIteration
\* is the iteration of the first sample that reached it; a metric call changes
\* the best-tracking state exactly when its rawScore is above bestRaw, and
\* bestRaw never goes down.
C31_BestIsFirstMaximum ==
    /\ [](/\ bestRaw = RunningBest(Len(sampleLog))
          /\ bestIteration = FirstAtBest)
    /\ [][/\ bestRaw' >= bestRaw
          /\ Sampled =>
                ((bestRaw' # bestRaw \/ bestIteration' # bestIteration)
                    <=> LastRaw > bestRaw)
          /\ (Sampled /\ LastRaw > bestRaw) =>
                (bestRaw' = LastRaw /\ bestIteration' = globalIteration')]_vars

\* A later sample tied the best reached at iteration 2 or later, and a sample
\* below the best followed: the best is still that of the first to reach it.
C31_Witness ==
    /\ bestRaw > 0
    /\ bestIteration > 1
    /\ \E j \in DOMAIN sampleLog : j > bestIteration /\ sampleLog[j][1] = bestRaw
    /\ \E j \in DOMAIN sampleLog :
           j > bestIteration /\ sampleLog[j][1] < bestRaw /\ sampleLog[j][1] > 0

\* The coverage-threshold snapshots the primary store holds for sample i.
CoverageThresholdAt(i) ==
    {k \in DOMAIN bestPrompts :
        /\ bestPrompts[k].reason = <<"coverageThreshold">>
        /\ bestPrompts[k].iteration = i}

AutosaveRecords(store) ==
    {k \in DOMAIN store : store[k].reason[Len(store[k].reason)] = "periodicAutosave"}

\* C33: a metric call that comes autosaveInterval iterations or more after the
\* last autosave, with a best snapshot known, appends one copy of that
\* snapshot to the emergency store, with the time of the call and the
\* autosave tag, and records its iteration as the last autosave; a call that
\* comes earlier writes no autosave record; so two autosave records are never
\* less than autosaveInterval iterations apart.
C33_AutosaveEveryInterval ==
    /\ [][Sampled =>
            LET it    == globalIteration'
                due   == it - lastAutosaveIter >= AutosaveInterval
                added == AutosaveRecords(emergencyStore') \ DOMAIN emergencyStore
            IN  /\ AutosaveRecords(emergencyStore') \cap DOMAIN emergencyStore
                       = AutosaveRecords(emergencyStore)
                /\ (due /\ bestSnapshot' # NoSnapshot) =>
                       /\ added = {Len(emergencyStore')}
                       /\ emergencyStore'[Len(emergencyStore')] =
                              [bestSnapshot' EXCEPT
                                  !.ts = mNow',
                                  !.reason = Append(@, "periodicAutosave")]
                       /\ mNow' > mNow
                       /\ lastAutosaveIter' = it
                /\ ~due => (added = {} /\ lastAutosaveIter' = lastAutosaveIter)]_vars
    /\ [](\A k, l \in AutosaveRecords(emergencyStore) :
              k < l => emergencyStore[l].ts - emergencyStore[k].ts >= AutosaveInterval)

\* The autosave has come round twice, the second time with a snapshot newer
\* than the first one's.
C33_Witness ==
    /\ Cardinality(AutosaveRecords(emergencyStore)) = 2
    /\ lastAutosaveIter = 2 * AutosaveInterval
    /\ \E k, l \in AutosaveRecords(emergencyStore) :
           k < l /\ emergencyStore[l].iteration > emergencyStore[k].iteration

-----------------------------------------------------------------------------
(* SCORER: PARSING THE CANDIDATE TEXT                                      *)
(*                                                                         *)
(* One call of _analyze_output with _parse_prompt_json in it.  A candidate *)
(* text is its symbols (what the features are matched against when it is   *)
(* scored raw) together with what the readers make of it: the outcome of   *)
(* json.loads on the text without its code fence, the outcome of           *)
(* repair_json followed by json.loads, whether PromptConfigSchema accepts  *)
(* the object, and the fields _parse_prompt_json extracts from it.         *)

Candidate(raw, loads, repair, valid, persona, requirements, fallback) ==
    [raw |-> raw, loads |-> loads, repair |-> repair, schemaValid |-> valid,
     persona |-> persona, requirements |-> requirements, fallback |-> fallback]

\* The candidate texts of the model.
\*   prose                          neither JSON nor repairable to an object
\*   nothing but blanks             "Empty response"
\*   a prompt object                persona and two requirements
\*   the same with a trailing comma repaired to the prompt object
\*   an object without requirements the schema rejects it
\*   requirements an empty string   the schema accepts it, no requirement
\*   a JSON array                   valid JSON, no object
\*   an object holding an integer of 5000 digits
\*                                  json.loads raises ValueError
\*   brackets nested 100000 deep    json.loads raises RecursionError
CandidateChoices ==
    { Candidate(<<"keep", " ", "a", " ", "To", "-", "do", " ", "list">>,
                "decodeError", "other", FALSE, <<>>, <<>>, <<>>),
      Candidate(<<" ">>, "empty", "none", FALSE, <<>>, <<>>, <<>>),
      Candidate(<<"persona", " ", "guide", " ", "requirements", " ", "Grounding",
                  " ", "timeline", " ", "review", " ", "To", "-", "do">>,
                "object", "none", TRUE, <<"guide">>,
                << <<"Grounding">>, <<"timeline", " ", "review">> >>, <<>>),
      Candidate(<<"persona", " ", "guide", " ", "requirements", " ", "Step", "-",
                  "by", "-", "step">>,
                "decodeError", "object", TRUE, <<"guide">>,
                << <<"Step", "-", "by", "-", "step">> >>, <<"list">>),
      Candidate(<<"persona", " ", "guide", " ", "timeline", " ", "review">>,
                "object", "none", FALSE, <<"guide">>, <<>>,
                <<"timeline", " ", "review">>),
      Candidate(<<"persona", " ", "guide", " ", "requirements", " ", "fallback",
                  " ", "grounding">>,
                "object", "none", TRUE, <<"guide">>, <<>>, <<"grounding">>),
      Candidate(<<"grounding", " ", "timeline">>,
                "other", "none", FALSE, <<>>, <<>>, <<>>),
      Candidate(<<"persona", " ", "guide", " ", "requirements", " ", "grounding",
                  " ", "seed", " ", "9999">>,
                "valueError", "none", TRUE, <<"guide">>, << <<"grounding">> >>, <<>>),
      Candidate(<<"[", "[", "[", "grounding">>,
                "recursionError", "none", FALSE, <<>>, <<>>, <<>>) }

\* " \n".join(parts): the parts with white space between them.
JoinParts(parts) ==
    LET RECURSIVE Join(_)
        Join(k) == IF k = 0 THEN <<>>
                   ELSE IF k = 1 THEN parts[1]
                   ELSE Join(k - 1) \o <<" ">> \o parts[k]
    IN  Join(Len(parts))

\* requirements_text: "\n".join(f"- {item}" for item in normalized_requirements)
RequirementsText(items) ==
    JoinParts([i \in DOMAIN items |-> <<"-", " ">> \o items[i]])

\* _parse_prompt_json, lines 544-628.  json.loads is guarded by
\* `except json.JSONDecodeError` alone, the repair by `except Exception`.
ParsePromptJson(c) ==
    LET data == IF c.loads = "decodeError" THEN c.repair ELSE c.loads
        none == [raised |-> "none", config |-> FALSE, ok |-> FALSE]
    IN  IF c.loads = "empty" THEN none
        ELSE IF c.loads \in {"valueError", "recursionError"}
             THEN [raised |-> c.loads, config |-> FALSE, ok |-> FALSE]
        ELSE IF data # "object" THEN none
        ELSE [raised |-> "none", config |-> TRUE,
              ok |-> c.schemaValid /\ c.persona # <<>> /\ c.requirements # <<>>]

\* combined_text of _analyze_output, lines 1031-1040.
CombinedText(c) ==
    JoinParts(SelectSeq(<<c.persona, RequirementsText(c.requirements), c.fallback>>,
                        LAMBDA part : part # <<>>))

ParseStart ==
    /\ sDoc \in CandidateChoices
    /\ sError = "none"
    /\ sFeatures \in SeqsUpTo(0..Len(FeatureText), MaxFeatures)
    /\ sText = <<>>
    /\ sParsed = FALSE
    /\ sRawWeights = <<>>
    /\ sJsonBonus \in {0, 2500}
    /\ scoreResult = NoResult
    /\ workerResult = NoResult
    /\ scored = {}

\* _analyze_output(raw_text, features, json_bonus, feature_weights): what
\* _parse_prompt_json raises goes out of the call; otherwise the combined
\* fields are scored with the bonus, or the raw text without it.
AnalyzeCall ==
    /\ scored = {}
    /\ scored' = {"score"}
    /\ LET p == ParsePromptJson(sDoc)
       IN  IF p.raised # "none"
           THEN /\ sError' = p.raised
                /\ UNCHANGED <<sText, sParsed, scoreResult>>
           ELSE /\ sError' = "none"
                /\ sParsed' = (p.config /\ p.ok)
                /\ sText' = IF p.config /\ p.ok THEN CombinedText(sDoc) ELSE sDoc.raw
                /\ scoreResult' = AnalyzeOutput(sText', sParsed', sFeatures, sJsonBonus,
                                                sRawWeights)
    /\ UNCHANGED <<sDoc, sFeatures, sRawWeights, sJsonBonus, workerResult>>
    /\ UNCHANGED <<dispVars, cacheVars, storeVars, keyVars, expVars, bankVars,
                   metricVars, failVars, bumpVars, sigVars>>

ParseNext == AnalyzeCall

ParseInit ==
    DispIdle /\ CacheIdle /\ StoreIdle /\ KeyIdle /\ ExpIdle /\ BankIdle
        /\ MetricIdle /\ FailIdle /\ BumpIdle /\ SigIdle /\ ParseStart

ParseSpec == ParseInit /\ [][ParseNext]_vars

\* ---- claims about parsing ----

\* The text reads as an object (as it stands or repaired), the schema accepts
\* it, and it has a persona and a requirement.
Structured(c) ==
    /\ c.loads = "object" \/ (c.loads = "decodeError" /\ c.repair = "object")
    /\ c.schemaValid
    /\ c.persona # <<>>
    /\ c.requirements # <<>>

\* C34 (as claimed): a call of the scorer lets no error out; the bonus is
\* granted and the features are matched against the parsed fields exactly
\* when the text is structured, and otherwise the raw text is scored with
\* bonus 0.
C34_BonusIffStructured ==
    scored # {} =>
        /\ sError = "none"
        /\ scoreResult =
               IF Structured(sDoc)
               THEN AnalyzeOutput(CombinedText(sDoc), TRUE, sFeatures, sJsonBonus, <<>>)
               ELSE AnalyzeOutput(sDoc.raw, FALSE, sFeatures, 0, <<>>)

\* The same for the texts json.loads reads or rejects as malformed.
BonusIffStructuredWhenLoadsReturns ==
    (scored # {} /\ sDoc.loads \notin {"valueError", "recursionError"}) =>
        /\ sError = "none"
        /\ scoreResult =
               IF Structured(sDoc)
               THEN AnalyzeOutput(CombinedText(sDoc), TRUE, sFeatures, sJsonBonus, <<>>)
               ELSE AnalyzeOutput(sDoc.raw, FALSE, sFeatures, 0, <<>>)

-----------------------------------------------------------------------------
(* A TERMINATION SIGNAL DURING AN APPEND TO THE EMERGENCY STORE            *)
(*                                                                         *)
(* The metric appends to the emergency store with _append_best_prompt: it  *)
(* opens the file, takes flock(LOCK_EX) on the handle, writes its line and *)
(* unlocks.  _emergency_signal_handler does the same through a handle of   *)
(* its own.  Python runs a signal handler in the main thread, between two  *)
(* bytecodes of whatever the main thread was doing, which stays suspended  *)
(* until the handler returns; other threads keep running.  flock locks     *)
(* belong to the open file, so two handles of one process exclude each     *)
(* other like handles of two processes.                                    *)

\* Largest number of appends the metric begins.
MaxAppends == 3

SigStart ==
    /\ aThread \in {"main", "worker"}
    /\ aFcntl \in BOOLEAN
    /\ apc = "idle"
    /\ aCount = 0
    /\ hpc = "off"
    /\ eLock = "none"
    /\ eLines = <<>>

SigFrame ==
    UNCHANGED <<dispVars, cacheVars, storeVars, keyVars, expVars, bankVars,
                scoreVars, metricVars, failVars, bumpVars, parseVars>>

\* The thread of the metric can take a step: the process has not exited, and
\* the main thread is not inside the handler if that is where the metric runs.
MetricThreadRuns == hpc # "exited" /\ (aThread = "worker" \/ hpc = "off")

\* _file_lock_context, line 195: open(path, 'a')
MetricAppendOpen ==
    /\ MetricThreadRuns
    /\ apc = "idle"
    /\ aCount < MaxAppends
    /\ apc' = "opened"
    /\ aCount' = aCount + 1
    /\ UNCHANGED <<aThread, aFcntl, hpc, eLock, eLines>>
    /\ SigFrame

\* _acquire_file_lock, lines 164-173: flock(LOCK_EX) returns once no other
\* handle holds the lock; without fcntl nothing is locked.
MetricAppendLock ==
    /\ MetricThreadRuns
    /\ apc = "opened"
    /\ IF aFcntl THEN eLock = "none" /\ eLock' = "metric" ELSE UNCHANGED eLock
    /\ apc' = "locked"
    /\ UNCHANGED <<aThread, aFcntl, aCount, hpc, eLines>>
    /\ SigFrame

\* _append_best_prompt, line 1679: handle.write(line + "\n")
MetricAppendWrite ==
    /\ MetricThreadRuns
    /\ apc = "locked"
    /\ eLines' = Append(eLines, "sample")
    /\ apc' = "written"
    /\ UNCHANGED <<aThread, aFcntl, aCount, hpc, eLock>>
    /\ SigFrame

\* _file_lock_context's finally, lines 198-205
MetricAppendClose ==
    /\ MetricThreadRuns
    /\ apc = "written"
    /\ eLock' = IF eLock = "metric" THEN "none" ELSE eLock
    /\ apc' = "idle"
    /\ UNCHANGED <<aThread, aFcntl, aCount, hpc, eLines>>
    /\ SigFrame

\* SIGTERM, SIGINT or SIGQUIT is delivered: the handler starts in the main
\* thread.
SignalArrives ==
    /\ hpc = "off"
    /\ hpc' = "h_save"
    /\ UNCHANGED <<aThread, aFcntl, apc, aCount, eLock, eLines>>
    /\ SigFrame

\* _emergency_signal_handler, lines 1917-1923: with a snapshot in memory (the
\* metric sets it before its first append) the handler opens the store.
HandlerAppendOpen ==
    /\ hpc = "h_save"
    /\ hpc' = IF aCount > 0 THEN "h_opened" ELSE "h_cleanup"
    /\ UNCHANGED <<aThread, aFcntl, apc, aCount, eLock, eLines>>
    /\ SigFrame

\* _acquire_file_lock on the handler's handle
HandlerAppendLock ==
    /\ hpc = "h_opened"
    /\ IF aFcntl THEN eLock = "none" /\ eLock' = "handler" ELSE UNCHANGED eLock
    /\ hpc' = "h_locked"
    /\ UNCHANGED <<aThread, aFcntl, apc, aCount, eLines>>
    /\ SigFrame

HandlerAppendWrite ==
    /\ hpc = "h_locked"
    /\ eLines' = Append(eLines, "signal")
    /\ hpc' = "h_written"
    /\ UNCHANGED <<aThread, aFcntl, apc, aCount, eLock>>
    /\ SigFrame

HandlerAppendClose ==
    /\ hpc = "h_written"
    /\ eLock' = IF eLock = "handler" THEN "none" ELSE eLock
    /\ hpc' = "h_cleanup"
    /\ UNCHANGED <<aThread, aFcntl, apc, aCount, eLines>>
    /\ SigFrame

\* _cleanup_resources() and sys.exit(2), lines 1933-1939
HandlerCleanupAndExit ==
    /\ hpc = "h_cleanup"
    /\ hpc' = "exited"
    /\ UNCHANGED <<aThread, aFcntl, apc, aCount, eLock, eLines>>
    /\ SigFrame

MetricAppendStep ==
    MetricAppendLock \/ MetricAppendWrite \/ MetricAppendClose

SigHandlerStep ==
    \/ HandlerAppendOpen
    \/ HandlerAppendLock
    \/ HandlerAppendWrite
    \/ HandlerAppendClose
    \/ HandlerCleanupAndExit

SigNext ==
    \/ MetricAppendOpen
    \/ MetricAppendStep
    \/ SignalArrives
    \/ SigHandlerStep

SigInit ==
    DispIdle /\ CacheIdle /\ StoreIdle /\ KeyIdle /\ ExpIdle /\ BankIdle
        /\ ScoreIdle /\ MetricIdle /\ FailIdle /\ BumpIdle /\ ParseIdle /\ SigStart

SigSpec == SigInit /\ [][SigNext]_vars

\* A thread that can take a step takes it: the handler in the main thread,
\* the append in the thread of the metric.
SigLiveSpec ==
    SigSpec /\ WF_vars(SigHandlerStep) /\ WF_vars(MetricAppendStep)

\* ---- claims about the signal during an append ----

\* The signal has arrived while the code it interrupted, in the main thread,
\* holds the lock on the emergency store.
InterruptedHoldingLock ==
    hpc = "h_save" /\ aThread = "main" /\ eLock = "metric"

\* C37 (as claimed): a signal that interrupts the main thread inside its
\* locked append to the emergency store is followed by the handler's own
\* append and the exit of the process.
C37_SignalInLockedAppendExits ==
    InterruptedHoldingLock ~> (hpc = "exited")

\* The same for a metric that runs in a worker thread, or without fcntl.
SignalElsewhereExits ==
    (hpc = "h_save" /\ ~(aThread = "main" /\ eLock = "metric")) ~> (hpc = "exited")

-----------------------------------------------------------------------------
(* EXPERIENCE BANK: THE SAVE AND PRUNE AT THE END OF A RUN                 *)
(*                                                                         *)
(* run appends the experience of a final prompt that parsed and scored at  *)
(* least the save threshold, then prunes the store.  Scores and thresholds *)
(* are in 1/10000 units, times in days, as in the store above; the append  *)
(* and the prune of one run fall on the same day.                          *)

\* No experiencePruneThreshold in the payload or the environment.
NoThreshold == -1

SaveThresholdChoices  == {3000, 5000}
PruneThresholdChoices == {NoThreshold, 5000, 9000}
FinalScoreChoices     == {2000, 3000, 4000, 9000}

PruneThresholdOfFixedDefault(configured, saveThreshold) ==
    IF configured = NoThreshold THEN 5000 ELSE configured

\* prune_threshold_value, lines 2415-2423: the configured value, else the
\* save threshold.
PruneThresholdOf(configured, saveThreshold) ==
    IF configured = NoThreshold THEN saveThreshold ELSE configured

\* exp_record, lines 2393-2412
RunExperience(score, now) ==
    Experience("new", "tutorial", score, TRUE, now, IntroOnly, 0)

\* run, lines 2373-2432, with writes that go through: the append when save_ok,
\* then _prune_experiences on the store as the append left it.
SaveAndPrune(score, parsed, saveThreshold, configured, maxAgeDays) ==
    /\ epc = "idle"
    /\ LET saving    == parsed /\ score >= saveThreshold
           store1    == IF saving THEN Append(expStore, RunExperience(score, expNow))
                        ELSE expStore
           threshold == PruneThresholdOf(configured, saveThreshold)
       IN  /\ expPrior' = store1
           /\ pruneArgs' = [threshold |-> threshold, maxAgeDays |-> maxAgeDays,
                            configured |-> configured # NoThreshold]
           /\ expStore' = PruneExperiences(store1, threshold, maxAgeDays, expNow)
           /\ pruneCounts' = PruneCounts(store1, threshold, maxAgeDays, expNow)
           /\ epc' = IF saving THEN "saved" ELSE "pruned"
    /\ UNCHANGED <<expNow, query, retrieved>>
    /\ ExpFrame

SaveNext ==
    \E score \in FinalScoreChoices, parsed \in BOOLEAN,
       saveThreshold \in SaveThresholdChoices, configured \in PruneThresholdChoices,
       maxAgeDays \in MaxAgeChoices :
        SaveAndPrune(score, parsed, saveThreshold, configured, maxAgeDays)

SaveSpec == ExpInit /\ [][SaveNext]_vars

\* ---- claims about the save and prune ----

\* The positions of the run's own record in a store.
OwnRecordIn(store) == {i \in DOMAIN store : store[i].id = "new"}

\* C39: when no prune threshold is configured, the record a run appended is
\* in the store after the prune of the same run, once and as it was appended.
C39_OwnRecordSurvivesPrune ==
    (epc = "saved" /\ ~pruneArgs.configured) =>
        /\ Cardinality(OwnRecordIn(expStore)) = 1
        /\ expStore[Len(expStore)] = expPrior[Len(expPrior)]
        /\ expStore[Len(expStore)].id = "new"

\* A run saved a record that scored exactly the save threshold, with the age
\* test on and no prune threshold configured; its prune removed older records
\* and kept the new one.
C39_Witness ==
    /\ epc = "saved" /\ ~pruneArgs.configured
    /\ pruneArgs.maxAgeDays > 0
    /\ pruneCounts.removed > 0
    /\ \E i \in OwnRecordIn(expStore) : expStore[i].score = pruneArgs.threshold

\* With a higher prune threshold configured, the prune removes the record the
\* run has just appended.
OwnRecordPrunedWhenConfigured ==
    /\ epc = "saved" /\ pruneArgs.configured
    /\ OwnRecordIn(expStore) = {}

=============================================================================
